---- MODULE Spec2Model ----
(***************************************************************************)
(* lazydb: the application-state engine (src/src/app.rs, src/src/event.rs) *)
(* as a state machine.  The App object is one record-valued variable whose *)
(* fields carry the names of the Rust struct; every handler is an operator *)
(* from an App value to the App value it leaves behind plus the background *)
(* tasks it spawns.  The event channel, the spawned tasks and the pollers  *)
(* are separate variables: they are the only things that run concurrently  *)
(* with the dispatcher.                                                    *)
(***************************************************************************)
EXTENDS Integers, Sequences, FiniteSets, Bags, TLC

\* ------------------------------------------------------------ constants
PAGE_SIZE == 50
MAX_HISTORY == 20
DEFAULT_VISIBLE_ROWS == 15
SPARKLINE_MAX_POINTS == 60

\* Bounds of the model (the program itself has none of them).
\* MaxQueue: events waiting in the channel; MaxTasks: one-shot tasks in flight;
\* MaxLines / MaxLineLen: size of the editor text the user may type;
\* MaxSent: events recorded by the channel observer when it is switched on.
MaxQueue == 2
MaxTasks == 2
MaxLines == 2
MaxLineLen == 2
MaxSent == 5
\* MaxQueries: queries the user submits in one session.
MaxQueries == 2
\* MaxHistoryLen: entries the query history holds before no more is submitted.
MaxHistoryLen == 3
\* MaxLoads: structures waiting in the channel.
MaxLoads == 1

\* Option<T>: None is the empty sequence, Some(x) the one-element sequence.
None == <<>>
Some(x) == <<x>>
IsSome(o) == o # <<>>
Unwrap(o) == o[1]

Min(a, b) == IF a < b THEN a ELSE b
\* usize::saturating_sub
SatSub(a, b) == IF a > b THEN a - b ELSE 0
\* A division that drops the partial page.
DivCeil_rounds_down(a, b) == a \div b

\* usize::div_ceil
DivCeil(a, b) == (a + b - 1) \div b

RECURSIVE Flatten(_)
Flatten(ss) == IF ss = <<>> THEN <<>> ELSE Head(ss) \o Flatten(Tail(ss))

\* Iterator::position : 0-based index of the first match, None when absent.
RECURSIVE PositionFrom(_, _, _)
PositionFrom(seq, x, i) ==
    IF i > Len(seq) THEN None
    ELSE IF seq[i] = x THEN Some(i - 1)
    ELSE PositionFrom(seq, x, i + 1)
Position(seq, x) == PositionFrom(seq, x, 1)

\* ------------------------------------------------------------ text
\* A string is a sequence of characters; NL is the line break.
NL == "\n"
IsWhitespace(c) == c \in {" ", NL}

\* [String]::join("\n")
RECURSIVE JoinLines(_)
JoinLines(lines) ==
    IF lines = <<>> THEN <<>>
    ELSE IF Len(lines) = 1 THEN lines[1]
    ELSE lines[1] \o <<NL>> \o JoinLines(Tail(lines))

\* Split at every line break, keeping a last empty piece.
RECURSIVE SplitNL(_, _)
SplitNL(s, cur) ==
    IF s = <<>> THEN <<cur>>
    ELSE IF Head(s) = NL THEN <<cur>> \o SplitNL(Tail(s), <<>>)
    ELSE SplitNL(Tail(s), Append(cur, Head(s)))

\* str::lines(): lines are ended (not separated) by a line break, so the empty
\* piece after a final line break is no line, and the empty string has no lines.
StrLines(s) ==
    LET pieces == SplitNL(s, <<>>)
    IN IF pieces[Len(pieces)] = <<>> THEN SubSeq(pieces, 1, Len(pieces) - 1) ELSE pieces

RECURSIVE TrimStart(_)
TrimStart(s) ==
    IF s # <<>> /\ IsWhitespace(Head(s)) THEN TrimStart(Tail(s)) ELSE s
RECURSIVE TrimEnd(_)
TrimEnd(s) ==
    IF s # <<>> /\ IsWhitespace(s[Len(s)]) THEN TrimEnd(SubSeq(s, 1, Len(s) - 1)) ELSE s
\* str::trim()
Trim(s) == TrimEnd(TrimStart(s))

\* TextArea::new(lines): a text area always holds at least one line; the cursor
\* starts at (0, 0).
TextAreaNew(lines) ==
    [lines |-> IF lines = <<>> THEN << <<>> >> ELSE lines, row |-> 0, col |-> 0]

\* TextArea::lines().join("\n")
EditorText(ed) == JoinLines(ed.lines)

\* ------------------------------------------------------------ tree node ids
Root == <<"Root">>
Schema(s) == <<"Schema", s>>
Table(s, t) == <<"Table", s, t>>
Column(s, t, c) == <<"Column", s, t, c>>

RootPath == <<Root>>
SchemaPath(s) == <<Root, Schema(s)>>
TablePath(s, t) == <<Root, Schema(s), Table(s, t)>>
ColumnPath(s, t, c) == <<Root, Schema(s), Table(s, t), Column(s, t, c)>>

\* ------------------------------------------------------------ TableViewState
\* total_pages without the special case of the empty table.
total_pages_no_minimum(state) == DivCeil(state.total_count, PAGE_SIZE)

\* TableViewState::total_pages
total_pages(state) ==
    IF state.total_count = 0 THEN 1 ELSE DivCeil(state.total_count, PAGE_SIZE)

\* TableViewState::ensure_visible: two successive ifs on the same state.
TableViewState_ensure_visible(state, visible_rows) ==
    IF visible_rows = 0 THEN state
    ELSE LET s1 == IF state.selected_row < state.scroll_offset
                   THEN [state EXCEPT !.scroll_offset = state.selected_row]
                   ELSE state
         IN IF s1.selected_row >= s1.scroll_offset + visible_rows
            THEN [s1 EXCEPT !.scroll_offset = SatSub(s1.selected_row, visible_rows - 1)]
            ELSE s1

\* QueryResultState::ensure_visible (the same code, on the query result).
QueryResultState_ensure_visible(qr, visible_rows) ==
    IF visible_rows = 0 THEN qr
    ELSE LET s1 == IF qr.selected_row < qr.scroll_offset
                   THEN [qr EXCEPT !.scroll_offset = qr.selected_row]
                   ELSE qr
         IN IF s1.selected_row >= s1.scroll_offset + visible_rows
            THEN [s1 EXCEPT !.scroll_offset = SatSub(s1.selected_row, visible_rows - 1)]
            ELSE s1

\* CurrentView
ConnectionStatus == [kind |-> "ConnectionStatus"]
TableList == [kind |-> "TableList"]
TableView(state) == [kind |-> "TableView", state |-> state]
IsTableView(view) == view.kind = "TableView"

\* ------------------------------------------------------------ FocusedPane
Panes == {"Sidebar", "Stats", "Logs", "Results", "Editor"}

\* A next that leaves the log pane out of the ring.
FocusedPane_next_skips_logs(p) ==
    CASE p = "Sidebar" -> "Stats"
      [] p = "Stats" -> "Results"
      [] p = "Results" -> "Editor"
      [] p = "Editor" -> "Sidebar"
      [] p = "Logs" -> "Sidebar"

\* FocusedPane::next
FocusedPane_next(p) ==
    CASE p = "Sidebar" -> "Stats"
      [] p = "Stats" -> "Results"
      [] p = "Results" -> "Editor"
      [] p = "Editor" -> "Logs"
      [] p = "Logs" -> "Sidebar"

\* FocusedPane::prev
FocusedPane_prev(p) ==
    CASE p = "Sidebar" -> "Logs"
      [] p = "Stats" -> "Sidebar"
      [] p = "Results" -> "Stats"
      [] p = "Editor" -> "Results"
      [] p = "Logs" -> "Editor"

\* ------------------------------------------------------------ StatsState
\* push_sparkline that never evicts.
push_sparkline_keeps_all(deque, value) == Append(deque, value)

\* StatsState::push_sparkline
push_sparkline(deque, value) ==
    Append(IF Len(deque) >= SPARKLINE_MAX_POINTS THEN Tail(deque) ELSE deque, value)

\* StatsState::record_query
record_query(stats, duration_ms, row_count) ==
    [stats EXCEPT !.queries_run = @ + 1,
                  !.last_query_ms = Some(duration_ms),
                  !.queries_this_second = @ + 1,
                  !.rows_this_second = @ + row_count]

\* StatsState::tick_second
tick_second(stats, pool_size) ==
    [stats EXCEPT
        !.queries_per_sec = push_sparkline(@, stats.queries_this_second),
        !.rows_per_sec = push_sparkline(@, stats.rows_this_second),
        !.latency_ms = push_sparkline(@, IF IsSome(stats.last_query_ms)
                                         THEN Unwrap(stats.last_query_ms) ELSE 0),
        !.connections = push_sparkline(@, pool_size),
        !.queries_this_second = 0,
        !.rows_this_second = 0]

\* ------------------------------------------------------------ keys
\* A key press is named by its code, prefixed by its modifiers.  A one-character
\* name is KeyCode::Char of that character.
IsCharKey(k) == k \in {"a", "b", "c", "h", "j", "k", "l", "q", "r", ":", " "}

\* is_execute_key_combo
is_execute_key_combo(k) ==
    k \in {"Ctrl+Enter", "Cmd+Enter", "Shift+Enter", "Ctrl+j", "Ctrl+J", "F5"}

\* handle_list_navigation with a page-down that goes round to the first rows.
handle_list_navigation_page_wraps(code, selected, scroll_offset, len) ==
    LET moved ==
          CASE code \in {"Up", "k"} ->
                 LET s == IF selected > 0 THEN selected - 1 ELSE len - 1
                 IN [sel |-> s,
                     off |-> IF s = len - 1 THEN SatSub(len, DEFAULT_VISIBLE_ROWS)
                             ELSE scroll_offset,
                     hit |-> TRUE]
            [] code \in {"Down", "j"} ->
                 LET s == IF selected < len - 1 THEN selected + 1 ELSE 0
                 IN [sel |-> s, off |-> IF s = 0 THEN 0 ELSE scroll_offset, hit |-> TRUE]
            [] code = "PageUp" ->
                 [sel |-> SatSub(selected, DEFAULT_VISIBLE_ROWS), off |-> scroll_offset,
                  hit |-> TRUE]
            [] code = "PageDown" ->
                 [sel |-> (selected + DEFAULT_VISIBLE_ROWS) % len,
                  off |-> scroll_offset, hit |-> TRUE]
            [] code = "Home" -> [sel |-> 0, off |-> 0, hit |-> TRUE]
            [] code = "End" ->
                 [sel |-> len - 1, off |-> SatSub(len, DEFAULT_VISIBLE_ROWS), hit |-> TRUE]
            [] OTHER -> [sel |-> selected, off |-> scroll_offset, hit |-> FALSE]
        off1 == IF moved.sel < moved.off THEN moved.sel ELSE moved.off
        off2 == IF moved.sel >= off1 + DEFAULT_VISIBLE_ROWS
                THEN SatSub(moved.sel, DEFAULT_VISIBLE_ROWS - 1) ELSE off1
    IN IF moved.hit THEN [selected |-> moved.sel, scroll_offset |-> off2]
       ELSE [selected |-> selected, scroll_offset |-> scroll_offset]

\* handle_list_navigation, on (selected, scroll_offset) of a list of len >= 1 rows.
handle_list_navigation(code, selected, scroll_offset, len) ==
    LET moved ==
          CASE code \in {"Up", "k"} ->
                 LET s == IF selected > 0 THEN selected - 1 ELSE len - 1
                 IN [sel |-> s,
                     off |-> IF s = len - 1 THEN SatSub(len, DEFAULT_VISIBLE_ROWS)
                             ELSE scroll_offset,
                     hit |-> TRUE]
            [] code \in {"Down", "j"} ->
                 LET s == IF selected < len - 1 THEN selected + 1 ELSE 0
                 IN [sel |-> s, off |-> IF s = 0 THEN 0 ELSE scroll_offset, hit |-> TRUE]
            [] code = "PageUp" ->
                 [sel |-> SatSub(selected, DEFAULT_VISIBLE_ROWS), off |-> scroll_offset,
                  hit |-> TRUE]
            [] code = "PageDown" ->
                 [sel |-> Min(selected + DEFAULT_VISIBLE_ROWS, len - 1),
                  off |-> scroll_offset, hit |-> TRUE]
            [] code = "Home" -> [sel |-> 0, off |-> 0, hit |-> TRUE]
            [] code = "End" ->
                 [sel |-> len - 1, off |-> SatSub(len, DEFAULT_VISIBLE_ROWS), hit |-> TRUE]
            [] OTHER -> [sel |-> selected, off |-> scroll_offset, hit |-> FALSE]
        off1 == IF moved.sel < moved.off THEN moved.sel ELSE moved.off
        off2 == IF moved.sel >= off1 + DEFAULT_VISIBLE_ROWS
                THEN SatSub(moved.sel, DEFAULT_VISIBLE_ROWS - 1) ELSE off1
    IN IF moved.hit THEN [selected |-> moved.sel, scroll_offset |-> off2]
       ELSE [selected |-> selected, scroll_offset |-> scroll_offset]

\* ------------------------------------------------------------ the text area
\* tui_textarea::TextArea, as far as the application drives it: lines of
\* characters and a cursor (row, col), both 0-based.
CurLine(ed) == ed.lines[ed.row + 1]

\* CursorMove::Up / Down / Back / Forward / Head / End / Top / Bottom
move_cursor(ed, m) ==
    CASE m = "Up" ->
           IF ed.row = 0 THEN ed
           ELSE [ed EXCEPT !.row = @ - 1, !.col = Min(ed.col, Len(ed.lines[ed.row]))]
      [] m = "Down" ->
           IF ed.row + 1 >= Len(ed.lines) THEN ed
           ELSE [ed EXCEPT !.row = @ + 1, !.col = Min(ed.col, Len(ed.lines[ed.row + 2]))]
      [] m = "Back" ->
           IF ed.col > 0 THEN [ed EXCEPT !.col = @ - 1]
           ELSE IF ed.row > 0 THEN [ed EXCEPT !.row = @ - 1, !.col = Len(ed.lines[ed.row])]
           ELSE ed
      [] m = "Forward" ->
           IF ed.col < Len(CurLine(ed)) THEN [ed EXCEPT !.col = @ + 1]
           ELSE IF ed.row + 1 < Len(ed.lines) THEN [ed EXCEPT !.row = @ + 1, !.col = 0]
           ELSE ed
      [] m = "Head" -> [ed EXCEPT !.col = 0]
      [] m = "End" -> [ed EXCEPT !.col = Len(CurLine(ed))]
      [] m = "Top" -> [ed EXCEPT !.row = 0, !.col = Min(ed.col, Len(ed.lines[1]))]
      [] m = "Bottom" ->
           [ed EXCEPT !.row = Len(ed.lines) - 1,
                      !.col = Min(ed.col, Len(ed.lines[Len(ed.lines)]))]

RECURSIVE move_cursor_times(_, _, _)
move_cursor_times(ed, m, n) ==
    IF n = 0 THEN ed ELSE move_cursor_times(move_cursor(ed, m), m, n - 1)

\* TextArea::insert_str for a text without line breaks: inserted at the cursor.
insert_str(ed, s) ==
    LET line == CurLine(ed)
        new == SubSeq(line, 1, ed.col) \o s \o SubSeq(line, ed.col + 1, Len(line))
    IN [ed EXCEPT !.lines[ed.row + 1] = new, !.col = @ + Len(s)]

\* TextArea::insert_newline: the line is split at the cursor.
insert_newline(ed) ==
    LET line == CurLine(ed)
        before == SubSeq(ed.lines, 1, ed.row)
        after == SubSeq(ed.lines, ed.row + 2, Len(ed.lines))
    IN [lines |-> before \o <<SubSeq(line, 1, ed.col), SubSeq(line, ed.col + 1, Len(line))>>
                  \o after,
        row |-> ed.row + 1, col |-> 0]

\* TextArea::input(key): characters and Enter edit, the arrow keys move the
\* cursor, every other key of the model is ignored by the widget.
textarea_input(ed, k) ==
    CASE IsCharKey(k) -> insert_str(ed, <<k>>)
      [] k = "Enter" -> insert_newline(ed)
      [] k = "Up" -> move_cursor(ed, "Up")
      [] k = "Down" -> move_cursor(ed, "Down")
      [] k = "Left" -> move_cursor(ed, "Back")
      [] k = "Right" -> move_cursor(ed, "Forward")
      [] k = "Home" -> move_cursor(ed, "Head")
      [] k = "End" -> move_cursor(ed, "End")
      [] OTHER -> ed

\* ------------------------------------------------------------ App
\* What a handler leaves behind: the App value and the tasks it spawned.
Result(a, spawned) == [app |-> a, spawn |-> spawned]
NoSpawn(a) == Result(a, <<>>)

IsConnected(a) == a.connection.state = "Connected"

\* App::new (the connection task it spawns is in Init)
AppNew ==
    [running |-> TRUE,
     connection |-> [state |-> "Connecting"],
     current_view |-> ConnectionStatus,
     tables |-> <<>>,
     selected_table_index |-> 0,
     sidebar_scroll_offset |-> 0,
     stats_handle |-> None,
     schema_handle |-> None,
     focused_pane |-> "Sidebar",
     sql_editor |-> TextAreaNew(<<>>),
     editor_scroll_offset |-> 0,
     query_history |-> <<>>,
     history_index |-> None,
     saved_editor_content |-> None,
     query_executing |-> FALSE,
     query_start_time |-> None,
     query_result |-> None,
     show_query_results |-> FALSE,
     stats |-> [database |-> "", pg_version |-> "", table_count |-> 0, total_rows |-> 0,
                last_query_ms |-> None, queries_run |-> 0,
                queries_per_sec |-> <<>>, rows_per_sec |-> <<>>, latency_ms |-> <<>>,
                connections |-> <<>>, queries_this_second |-> 0, rows_this_second |-> 0],
     stats_scroll_offset |-> 0,
     db_structure |-> None,
     tree_state |-> [selected |-> <<>>, opened |-> {}],
     selected_table |-> None]

\* tui_tree_widget::TreeState::select / open / close
tree_select(ts, path) == [ts EXCEPT !.selected = path]
tree_open(ts, path) == IF path = <<>> THEN ts ELSE [ts EXCEPT !.opened = @ \cup {path}]
\* A close that forgets the open state of the descendants as well.
tree_close_with_descendants(ts, path) ==
    [ts EXCEPT !.opened =
        {p \in @ : ~(Len(p) >= Len(path) /\ SubSeq(p, 1, Len(path)) = path)}]

\* tui_tree_widget::TreeState::close
tree_close(ts, path) == [ts EXCEPT !.opened = @ \ {path}]

\* VisibleOfTable listing the columns whether the table is opened or not.
VisibleOfTable_shows_columns(schema, table, opened) ==
    <<TablePath(schema.name, table.name)>> \o
    [k \in 1..Len(table.columns) |->
        ColumnPath(schema.name, table.name, table.columns[k].name)]

\* The paths a table contributes to the visible list.
VisibleOfTable(schema, table, opened) ==
    <<TablePath(schema.name, table.name)>> \o
    (IF TablePath(schema.name, table.name) \in opened
     THEN [k \in 1..Len(table.columns) |->
              ColumnPath(schema.name, table.name, table.columns[k].name)]
     ELSE <<>>)

\* The paths a schema contributes to the visible list.
VisibleOfSchema(schema, opened) ==
    <<SchemaPath(schema.name)>> \o
    (IF SchemaPath(schema.name) \in opened
     THEN Flatten([j \in 1..Len(schema.tables) |->
                      VisibleOfTable(schema, schema.tables[j], opened)])
     ELSE <<>>)

\* App::get_visible_tree_paths
get_visible_tree_paths(a) ==
    IF a.db_structure = None THEN <<>>
    ELSE LET structure == Unwrap(a.db_structure)
             opened == a.tree_state.opened
         IN <<RootPath>> \o
            (IF RootPath \notin opened THEN <<>>
             ELSE Flatten([i \in 1..Len(structure.schemas) |->
                              VisibleOfSchema(structure.schemas[i], opened)]))

\* tree_navigate going round past either end of the list.
tree_navigate_wraps(a, delta) ==
    LET paths == get_visible_tree_paths(a)
        found == Position(paths, a.tree_state.selected)
        current_idx == IF IsSome(found) THEN Unwrap(found) ELSE 0
        new_idx == (current_idx + delta) % Len(paths)
    IN IF paths = <<>> THEN a
       ELSE [a EXCEPT !.tree_state = tree_select(@, paths[new_idx + 1])]

\* App::tree_navigate
tree_navigate(a, delta) ==
    LET paths == get_visible_tree_paths(a)
        found == Position(paths, a.tree_state.selected)
        current_idx == IF IsSome(found) THEN Unwrap(found) ELSE 0
        new_idx == IF delta < 0 THEN SatSub(current_idx, -delta)
                   ELSE Min(current_idx + delta, Len(paths) - 1)
    IN IF paths = <<>> THEN a
       ELSE [a EXCEPT !.tree_state = tree_select(@, paths[new_idx + 1])]

\* The tables of the first schema named "public", by name (SchemaLoaded).
RECURSIVE PublicTables(_)
PublicTables(schemas) ==
    IF schemas = <<>> THEN <<>>
    ELSE IF Head(schemas).name = "public"
         THEN [j \in 1..Len(Head(schemas).tables) |-> Head(schemas).tables[j].name]
         ELSE PublicTables(Tail(schemas))

RECURSIVE TableCount(_)
TableCount(schemas) ==
    IF schemas = <<>> THEN 0 ELSE Len(Head(schemas).tables) + TableCount(Tail(schemas))

\* App::start_schema_refresh_task
start_schema_refresh_task(a) ==
    IF ~IsConnected(a) THEN NoSpawn(a)
    ELSE Result([a EXCEPT !.schema_handle = Some("schema_refresh_task")],
                <<[type |-> "schema_refresh_task"]>>)

\* on_ConnectionResult showing the table list after a failed attempt too.
on_ConnectionResult_always_lists(a, result) ==
    IF result.ok
    THEN Result([a EXCEPT !.stats.database = result.db_name,
                          !.stats_handle = Some("stats_task"),
                          !.connection = [state |-> "Connected", db_name |-> result.db_name],
                          !.current_view = TableList],
                <<[type |-> "fetch_database_structure"], [type |-> "stats_task"]>>)
    ELSE NoSpawn([a EXCEPT !.connection = [state |-> "Failed", error |-> result.error],
                           !.current_view = TableList])

\* App::handle_app_event, AppEvent::ConnectionResult
on_ConnectionResult(a, result) ==
    IF result.ok
    THEN Result([a EXCEPT !.stats.database = result.db_name,
                          !.stats_handle = Some("stats_task"),
                          !.connection = [state |-> "Connected", db_name |-> result.db_name],
                          !.current_view = TableList],
                <<[type |-> "fetch_database_structure"], [type |-> "stats_task"]>>)
    ELSE NoSpawn([a EXCEPT !.connection = [state |-> "Failed", error |-> result.error],
                           !.current_view = ConnectionStatus])

\* App::handle_app_event, AppEvent::TablesLoaded
on_TablesLoaded(a, new_tables) ==
    IF a.tables = new_tables THEN NoSpawn(a)
    ELSE LET found == IF a.selected_table_index < Len(a.tables)
                      THEN Position(new_tables, a.tables[a.selected_table_index + 1])
                      ELSE None
         IN NoSpawn([a EXCEPT !.tables = new_tables,
                              !.selected_table_index =
                                  IF IsSome(found) THEN Unwrap(found) ELSE 0])

\* on_SchemaLoaded starting a schema poller on every structure it applies.
on_SchemaLoaded_restarts(a, structure) ==
    LET a1 == [a EXCEPT !.stats.table_count = TableCount(structure.schemas),
                        !.tables = PublicTables(structure.schemas),
                        !.db_structure = Some(structure)]
        a2 == IF a1.tree_state.selected = <<>>
              THEN [a1 EXCEPT !.tree_state =
                       tree_open(tree_open(tree_select(@, RootPath), RootPath),
                                 SchemaPath("public"))]
              ELSE a1
    IN start_schema_refresh_task(a2)

\* App::handle_app_event, AppEvent::SchemaLoaded
on_SchemaLoaded(a, structure) ==
    LET a1 == [a EXCEPT !.stats.table_count = TableCount(structure.schemas),
                        !.tables = PublicTables(structure.schemas),
                        !.db_structure = Some(structure)]
        a2 == IF a1.tree_state.selected = <<>>
              THEN [a1 EXCEPT !.tree_state =
                       tree_open(tree_open(tree_select(@, RootPath), RootPath),
                                 SchemaPath("public"))]
              ELSE a1
    IN IF a2.schema_handle = None THEN start_schema_refresh_task(a2) ELSE NoSpawn(a2)

\* on_TableDataLoaded applying a page to the table it was fetched for whatever
\* page the view is on.
on_TableDataLoaded_any_page(a, result) ==
    IF ~IsTableView(a.current_view) THEN NoSpawn(a)
    ELSE LET state == a.current_view.state
         IN IF result.ok
            THEN IF state.table_name = result.table_name
                 THEN LET s1 == [state EXCEPT !.columns = result.columns,
                                              !.rows = result.rows,
                                              !.total_count = result.total_count,
                                              !.loading = FALSE,
                                              !.error = None]
                          s2 == IF s1.selected_row >= Len(s1.rows) /\ s1.rows # <<>>
                                THEN [s1 EXCEPT !.selected_row = Len(s1.rows) - 1]
                                ELSE s1
                      IN NoSpawn([a EXCEPT !.current_view = TableView(s2)])
                 ELSE NoSpawn(a)
            ELSE NoSpawn([a EXCEPT !.current_view =
                             TableView([state EXCEPT !.loading = FALSE,
                                                     !.error = Some(result.error)])])

\* on_TableDataLoaded recording no error when the fetch failed.
on_TableDataLoaded_error_unset(a, result) ==
    IF ~IsTableView(a.current_view) THEN NoSpawn(a)
    ELSE LET state == a.current_view.state
         IN IF result.ok
            THEN IF state.table_name = result.table_name /\ state.page = result.page
                 THEN LET s1 == [state EXCEPT !.columns = result.columns,
                                              !.rows = result.rows,
                                              !.total_count = result.total_count,
                                              !.loading = FALSE,
                                              !.error = None]
                          s2 == IF s1.selected_row >= Len(s1.rows) /\ s1.rows # <<>>
                                THEN [s1 EXCEPT !.selected_row = Len(s1.rows) - 1]
                                ELSE s1
                      IN NoSpawn([a EXCEPT !.current_view = TableView(s2)])
                 ELSE NoSpawn(a)
            ELSE NoSpawn([a EXCEPT !.current_view =
                             TableView([state EXCEPT !.loading = FALSE])])

\* on_TableDataLoaded emptying the rows of the view when the fetch failed.
on_TableDataLoaded_error_drops_rows(a, result) ==
    IF ~IsTableView(a.current_view) THEN NoSpawn(a)
    ELSE LET state == a.current_view.state
         IN IF result.ok
            THEN IF state.table_name = result.table_name /\ state.page = result.page
                 THEN LET s1 == [state EXCEPT !.columns = result.columns,
                                              !.rows = result.rows,
                                              !.total_count = result.total_count,
                                              !.loading = FALSE,
                                              !.error = None]
                          s2 == IF s1.selected_row >= Len(s1.rows) /\ s1.rows # <<>>
                                THEN [s1 EXCEPT !.selected_row = Len(s1.rows) - 1]
                                ELSE s1
                      IN NoSpawn([a EXCEPT !.current_view = TableView(s2)])
                 ELSE NoSpawn(a)
            ELSE NoSpawn([a EXCEPT !.current_view =
                             TableView([state EXCEPT !.rows = <<>>,
                                                     !.total_count = 0,
                                                     !.loading = FALSE,
                                                     !.error = Some(result.error)])])

\* App::handle_app_event, AppEvent::TableDataLoaded
on_TableDataLoaded(a, result) ==
    IF ~IsTableView(a.current_view) THEN NoSpawn(a)
    ELSE LET state == a.current_view.state
         IN IF result.ok
            THEN IF state.table_name = result.table_name /\ state.page = result.page
                 THEN LET s1 == [state EXCEPT !.columns = result.columns,
                                              !.rows = result.rows,
                                              !.total_count = result.total_count,
                                              !.loading = FALSE,
                                              !.error = None]
                          s2 == IF s1.selected_row >= Len(s1.rows) /\ s1.rows # <<>>
                                THEN [s1 EXCEPT !.selected_row = Len(s1.rows) - 1]
                                ELSE s1
                      IN NoSpawn([a EXCEPT !.current_view = TableView(s2)])
                 ELSE NoSpawn(a)
            ELSE NoSpawn([a EXCEPT !.current_view =
                             TableView([state EXCEPT !.loading = FALSE,
                                                     !.error = Some(result.error)])])

\* on_QueryExecuted not counting a failed query.
on_QueryExecuted_failure_uncounted(a, result) ==
    LET a1 == [a EXCEPT !.query_executing = FALSE, !.query_start_time = None]
        a2 == IF result.ok
              THEN [a1 EXCEPT
                      !.stats = record_query(@, result.duration_ms, result.row_count),
                      !.query_result = Some([columns |-> result.columns,
                                             rows |-> result.rows,
                                             row_count |-> result.row_count,
                                             duration_ms |-> result.duration_ms,
                                             is_explain |-> result.is_explain,
                                             selected_row |-> 0,
                                             scroll_offset |-> 0,
                                             error |-> None])]
              ELSE [a1 EXCEPT
                      !.query_result = Some([columns |-> <<>>,
                                             rows |-> <<>>,
                                             row_count |-> 0,
                                             duration_ms |-> 0,
                                             is_explain |-> FALSE,
                                             selected_row |-> 0,
                                             scroll_offset |-> 0,
                                             error |-> Some(result.error)])]
    IN NoSpawn([a2 EXCEPT !.show_query_results = TRUE])

\* on_QueryExecuted forgetting to clear the executing flag.
on_QueryExecuted_keeps_flag(a, result) ==
    LET a2 == IF result.ok
              THEN [a EXCEPT
                      !.stats = record_query(@, result.duration_ms, result.row_count),
                      !.query_result = Some([columns |-> result.columns,
                                             rows |-> result.rows,
                                             row_count |-> result.row_count,
                                             duration_ms |-> result.duration_ms,
                                             is_explain |-> result.is_explain,
                                             selected_row |-> 0,
                                             scroll_offset |-> 0,
                                             error |-> None])]
              ELSE [a EXCEPT
                      !.stats.queries_run = @ + 1,
                      !.query_result = Some([columns |-> <<>>,
                                             rows |-> <<>>,
                                             row_count |-> 0,
                                             duration_ms |-> 0,
                                             is_explain |-> FALSE,
                                             selected_row |-> 0,
                                             scroll_offset |-> 0,
                                             error |-> Some(result.error)])]
    IN NoSpawn([a2 EXCEPT !.show_query_results = TRUE])

\* on_QueryExecuted bringing the focus to the results pane and leaving a table
\* view for the table list.
on_QueryExecuted_takes_over(a, result) ==
    LET a1 == [a EXCEPT !.query_executing = FALSE, !.query_start_time = None]
        a2 == IF result.ok
              THEN [a1 EXCEPT
                      !.stats = record_query(@, result.duration_ms, result.row_count),
                      !.query_result = Some([columns |-> result.columns,
                                             rows |-> result.rows,
                                             row_count |-> result.row_count,
                                             duration_ms |-> result.duration_ms,
                                             is_explain |-> result.is_explain,
                                             selected_row |-> 0,
                                             scroll_offset |-> 0,
                                             error |-> None])]
              ELSE [a1 EXCEPT
                      !.stats.queries_run = @ + 1,
                      !.query_result = Some([columns |-> <<>>,
                                             rows |-> <<>>,
                                             row_count |-> 0,
                                             duration_ms |-> 0,
                                             is_explain |-> FALSE,
                                             selected_row |-> 0,
                                             scroll_offset |-> 0,
                                             error |-> Some(result.error)])]
    IN NoSpawn([a2 EXCEPT !.show_query_results = TRUE,
                          !.focused_pane = "Results",
                          !.current_view = IF IsTableView(@) THEN TableList ELSE @])

\* App::handle_app_event, AppEvent::QueryExecuted
on_QueryExecuted(a, result) ==
    LET a1 == [a EXCEPT !.query_executing = FALSE, !.query_start_time = None]
        a2 == IF result.ok
              THEN [a1 EXCEPT
                      !.stats = record_query(@, result.duration_ms, result.row_count),
                      !.query_result = Some([columns |-> result.columns,
                                             rows |-> result.rows,
                                             row_count |-> result.row_count,
                                             duration_ms |-> result.duration_ms,
                                             is_explain |-> result.is_explain,
                                             selected_row |-> 0,
                                             scroll_offset |-> 0,
                                             error |-> None])]
              ELSE [a1 EXCEPT
                      !.stats.queries_run = @ + 1,
                      !.query_result = Some([columns |-> <<>>,
                                             rows |-> <<>>,
                                             row_count |-> 0,
                                             duration_ms |-> 0,
                                             is_explain |-> FALSE,
                                             selected_row |-> 0,
                                             scroll_offset |-> 0,
                                             error |-> Some(result.error)])]
    IN NoSpawn([a2 EXCEPT !.show_query_results = TRUE])

\* App::handle_app_event
handle_app_event(a, event) ==
    CASE event.app = "Quit" -> NoSpawn([a EXCEPT !.running = FALSE])
      [] event.app = "ConnectionResult" -> on_ConnectionResult(a, event.result)
      [] event.app = "TablesLoaded" -> on_TablesLoaded(a, event.tables)
      [] event.app = "SchemaLoaded" -> on_SchemaLoaded(a, event.structure)
      [] event.app = "TableDataLoaded" -> on_TableDataLoaded(a, event.result)
      [] event.app = "QueryExecuted" -> on_QueryExecuted(a, event.result)
      [] event.app = "StatsUpdated" ->
           NoSpawn([a EXCEPT !.stats.pg_version = event.update.pg_version,
                             !.stats.total_rows = event.update.total_rows,
                             !.stats.table_count = Len(a.tables)])
      [] event.app = "SparklineTick" ->
           NoSpawn([a EXCEPT !.stats = tick_second(@, event.pool_size)])

\* ------------------------------------------------------------ query and history
\* App::update_editor_scroll
update_editor_scroll(a) ==
    LET cursor_row == a.sql_editor.row
        visible_rows == SatSub(DEFAULT_VISIBLE_ROWS, 2)
        o1 == IF cursor_row < a.editor_scroll_offset THEN cursor_row
              ELSE a.editor_scroll_offset
        o2 == IF cursor_row >= o1 + visible_rows THEN SatSub(cursor_row, visible_rows - 1)
              ELSE o1
    IN [a EXCEPT !.editor_scroll_offset = o2]

\* execute_query never evicting an entry of the history.
execute_query_keeps_all(a) ==
    LET query == Trim(EditorText(a.sql_editor))
        pushed == IF a.query_history # <<>> /\ Head(a.query_history) = query
                  THEN a.query_history
                  ELSE <<query>> \o a.query_history
        a1 == [a EXCEPT !.query_history = pushed,
                        !.history_index = None,
                        !.saved_editor_content = None]
    IN IF query = <<>> THEN NoSpawn(a)
       ELSE IF ~IsConnected(a1) THEN NoSpawn(a1)
       ELSE Result([a1 EXCEPT !.query_executing = TRUE,
                              !.query_start_time = Some("Instant")],
                   <<[type |-> "execute_sql_query", query |-> query]>>)

\* execute_query raising the executing flag before it looks at the connection.
execute_query_flag_first(a) ==
    LET query == Trim(EditorText(a.sql_editor))
        pushed == IF a.query_history # <<>> /\ Head(a.query_history) = query
                  THEN a.query_history
                  ELSE LET h == <<query>> \o a.query_history
                       IN IF Len(h) > MAX_HISTORY THEN SubSeq(h, 1, Len(h) - 1) ELSE h
        a1 == [a EXCEPT !.query_history = pushed,
                        !.history_index = None,
                        !.saved_editor_content = None,
                        !.query_executing = TRUE,
                        !.query_start_time = Some("Instant")]
    IN IF query = <<>> THEN NoSpawn(a)
       ELSE IF ~IsConnected(a1) THEN NoSpawn(a1)
       ELSE Result(a1, <<[type |-> "execute_sql_query", query |-> query]>>)

\* App::execute_query
execute_query(a) ==
    LET query == Trim(EditorText(a.sql_editor))
        pushed == IF a.query_history # <<>> /\ Head(a.query_history) = query
                  THEN a.query_history
                  ELSE LET h == <<query>> \o a.query_history
                       IN IF Len(h) > MAX_HISTORY THEN SubSeq(h, 1, Len(h) - 1) ELSE h
        a1 == [a EXCEPT !.query_history = pushed,
                        !.history_index = None,
                        !.saved_editor_content = None]
    IN IF query = <<>> THEN NoSpawn(a)
       ELSE IF ~IsConnected(a1) THEN NoSpawn(a1)
       ELSE Result([a1 EXCEPT !.query_executing = TRUE,
                              !.query_start_time = Some("Instant")],
                   <<[type |-> "execute_sql_query", query |-> query]>>)

\* App::navigate_history_up
navigate_history_up(a) ==
    IF a.query_history = <<>> THEN a
    ELSE LET a1 == IF a.history_index = None
                   THEN [a EXCEPT !.saved_editor_content = Some(EditorText(a.sql_editor))]
                   ELSE a
             new_index == IF a.history_index = None THEN 0
                          ELSE Min(Unwrap(a.history_index) + 1, Len(a.query_history) - 1)
         IN [a1 EXCEPT !.history_index = Some(new_index),
                       !.sql_editor = TextAreaNew(StrLines(a.query_history[new_index + 1]))]

\* App::navigate_history_down
navigate_history_down(a) ==
    IF a.history_index = None THEN a
    ELSE IF Unwrap(a.history_index) = 0
    THEN LET a1 == [a EXCEPT !.history_index = None, !.saved_editor_content = None]
         IN IF IsSome(a.saved_editor_content)
            THEN [a1 EXCEPT !.sql_editor =
                     TextAreaNew(StrLines(Unwrap(a.saved_editor_content)))]
            ELSE a1
    ELSE LET i == Unwrap(a.history_index)
         IN [a EXCEPT !.history_index = Some(i - 1),
                      !.sql_editor = TextAreaNew(StrLines(a.query_history[i]))]

\* handle_editor_keys submitting without looking at query_executing.
handle_editor_keys_no_guard(a, k) ==
    IF is_execute_key_combo(k) THEN execute_query(a)
    ELSE CASE k = "Esc" ->
                NoSpawn([a EXCEPT !.focused_pane =
                            IF a.show_query_results \/ IsTableView(a.current_view)
                            THEN "Results" ELSE "Sidebar"])
           [] k = "Ctrl+Home" ->
                NoSpawn([a EXCEPT !.sql_editor = move_cursor(@, "Top"),
                                  !.editor_scroll_offset = 0])
           [] k = "Ctrl+End" ->
                NoSpawn(update_editor_scroll(
                    [a EXCEPT !.sql_editor = move_cursor(@, "Bottom")]))
           [] k = "Up" /\ a.sql_editor.row = 0 /\ a.query_history # <<>> ->
                NoSpawn(navigate_history_up(a))
           [] k = "Down" /\ a.sql_editor.row >= SatSub(Len(a.sql_editor.lines), 1)
                         /\ IsSome(a.history_index) ->
                NoSpawn(navigate_history_down(a))
           [] OTHER ->
                NoSpawn(update_editor_scroll(
                    [a EXCEPT !.sql_editor = textarea_input(@, k)]))

\* App::handle_editor_keys
handle_editor_keys(a, k) ==
    IF is_execute_key_combo(k)
    THEN IF ~a.query_executing THEN execute_query(a) ELSE NoSpawn(a)
    ELSE CASE k = "Esc" ->
                NoSpawn([a EXCEPT !.focused_pane =
                            IF a.show_query_results \/ IsTableView(a.current_view)
                            THEN "Results" ELSE "Sidebar"])
           [] k = "PageUp" ->
                NoSpawn(update_editor_scroll(
                    [a EXCEPT !.sql_editor =
                        move_cursor_times(@, "Up", DEFAULT_VISIBLE_ROWS)]))
           [] k = "PageDown" ->
                NoSpawn(update_editor_scroll(
                    [a EXCEPT !.sql_editor =
                        move_cursor_times(@, "Down", DEFAULT_VISIBLE_ROWS)]))
           [] k = "Ctrl+Home" ->
                NoSpawn([a EXCEPT !.sql_editor = move_cursor(@, "Top"),
                                  !.editor_scroll_offset = 0])
           [] k = "Ctrl+End" ->
                NoSpawn(update_editor_scroll(
                    [a EXCEPT !.sql_editor = move_cursor(@, "Bottom")]))
           [] k = "Up" /\ a.sql_editor.row = 0 /\ a.query_history # <<>> ->
                NoSpawn(navigate_history_up(a))
           [] k = "Down" /\ a.sql_editor.row >= SatSub(Len(a.sql_editor.lines), 1)
                         /\ IsSome(a.history_index) ->
                NoSpawn(navigate_history_down(a))
           [] OTHER ->
                NoSpawn(update_editor_scroll(
                    [a EXCEPT !.sql_editor = textarea_input(@, k)]))

\* ------------------------------------------------------------ table view
\* fetch_table_data asking for the first page whatever page is turned to.
fetch_table_data_first_page(a, table_name, page) ==
    IF ~IsConnected(a) THEN <<>>
    ELSE <<[type |-> "fetch_table_page", table_name |-> table_name, page |-> 0]>>

\* App::fetch_table_data: the task it spawns (none unless connected).
fetch_table_data(a, table_name, page) ==
    IF ~IsConnected(a) THEN <<>>
    ELSE <<[type |-> "fetch_table_page", table_name |-> table_name, page |-> page]>>

\* open_schema_table keeping the view when it already shows the table.
open_schema_table_keeps_same_table(a, schema, table) ==
    LET full_name == IF schema = "public" THEN table ELSE schema \o "." \o table
        a1 == [a EXCEPT !.show_query_results = FALSE,
                        !.selected_table = Some(<<schema, table>>),
                        !.current_view =
                            TableView([table_name |-> full_name,
                                       columns |-> <<>>,
                                       rows |-> <<>>,
                                       total_count |-> 0,
                                       page |-> 0,
                                       selected_row |-> 0,
                                       scroll_offset |-> 0,
                                       loading |-> TRUE,
                                       error |-> None])]
    IN IF IsTableView(a.current_view) /\ a.current_view.state.table_name = full_name
       THEN NoSpawn([a EXCEPT !.show_query_results = FALSE])
       ELSE Result(a1, fetch_table_data(a1, full_name, 0))

\* App::open_schema_table
open_schema_table(a, schema, table) ==
    LET full_name == IF schema = "public" THEN table ELSE schema \o "." \o table
        a1 == [a EXCEPT !.show_query_results = FALSE,
                        !.selected_table = Some(<<schema, table>>),
                        !.current_view =
                            TableView([table_name |-> full_name,
                                       columns |-> <<>>,
                                       rows |-> <<>>,
                                       total_count |-> 0,
                                       page |-> 0,
                                       selected_row |-> 0,
                                       scroll_offset |-> 0,
                                       loading |-> TRUE,
                                       error |-> None])]
    IN Result(a1, fetch_table_data(a1, full_name, 0))

\* results_navigate turning the page although a page is still loading.
results_navigate_while_loading(a, code) ==
    IF a.show_query_results
    THEN IF IsSome(a.query_result) /\ Unwrap(a.query_result).rows # <<>>
         THEN LET qr == Unwrap(a.query_result)
                  nav == handle_list_navigation(code, qr.selected_row, qr.scroll_offset,
                                                Len(qr.rows))
              IN NoSpawn([a EXCEPT !.query_result =
                             Some([qr EXCEPT !.selected_row = nav.selected,
                                             !.scroll_offset = nav.scroll_offset])])
         ELSE NoSpawn(a)
    ELSE IF IsTableView(a.current_view)
    THEN LET state == a.current_view.state
             nav == IF state.rows # <<>>
                    THEN handle_list_navigation(code, state.selected_row,
                                                state.scroll_offset, Len(state.rows))
                    ELSE [selected |-> state.selected_row,
                          scroll_offset |-> state.scroll_offset]
             s1 == [state EXCEPT !.selected_row = nav.selected,
                                 !.scroll_offset = nav.scroll_offset]
             turned == [s1 EXCEPT !.loading = TRUE, !.selected_row = 0,
                                  !.scroll_offset = 0]
         IN CASE code \in {"Left", "h"} /\ s1.page > 0 ->
                   LET s2 == [turned EXCEPT !.page = @ - 1]
                   IN Result([a EXCEPT !.current_view = TableView(s2)],
                             fetch_table_data(a, s2.table_name, s2.page))
              [] code \in {"Right", "l"} /\ s1.page < SatSub(total_pages(s1), 1) ->
                   LET s2 == [turned EXCEPT !.page = @ + 1]
                   IN Result([a EXCEPT !.current_view = TableView(s2)],
                             fetch_table_data(a, s2.table_name, s2.page))
              [] OTHER -> NoSpawn([a EXCEPT !.current_view = TableView(s1)])
    ELSE NoSpawn(a)

\* App::handle_results_keys, the part after the early returns: row navigation
\* in the query result, or row navigation and page turns in the table view.
results_navigate(a, code) ==
    IF a.show_query_results
    THEN IF IsSome(a.query_result) /\ Unwrap(a.query_result).rows # <<>>
         THEN LET qr == Unwrap(a.query_result)
                  nav == handle_list_navigation(code, qr.selected_row, qr.scroll_offset,
                                                Len(qr.rows))
              IN NoSpawn([a EXCEPT !.query_result =
                             Some([qr EXCEPT !.selected_row = nav.selected,
                                             !.scroll_offset = nav.scroll_offset])])
         ELSE NoSpawn(a)
    ELSE IF IsTableView(a.current_view)
    THEN LET state == a.current_view.state
             nav == IF state.rows # <<>>
                    THEN handle_list_navigation(code, state.selected_row,
                                                state.scroll_offset, Len(state.rows))
                    ELSE [selected |-> state.selected_row,
                          scroll_offset |-> state.scroll_offset]
             s1 == [state EXCEPT !.selected_row = nav.selected,
                                 !.scroll_offset = nav.scroll_offset]
             turned == [s1 EXCEPT !.loading = TRUE, !.selected_row = 0,
                                  !.scroll_offset = 0]
         IN CASE code \in {"Left", "h"} /\ s1.page > 0 /\ ~s1.loading ->
                   LET s2 == [turned EXCEPT !.page = @ - 1]
                   IN Result([a EXCEPT !.current_view = TableView(s2)],
                             fetch_table_data(a, s2.table_name, s2.page))
              [] code \in {"Right", "l"} /\ s1.page < SatSub(total_pages(s1), 1)
                                         /\ ~s1.loading ->
                   LET s2 == [turned EXCEPT !.page = @ + 1]
                   IN Result([a EXCEPT !.current_view = TableView(s2)],
                             fetch_table_data(a, s2.table_name, s2.page))
              [] OTHER -> NoSpawn([a EXCEPT !.current_view = TableView(s1)])
    ELSE NoSpawn(a)

\* App::handle_results_keys
handle_results_keys(a, code) ==
    IF code = "c" /\ a.show_query_results
    THEN NoSpawn([a EXCEPT !.show_query_results = FALSE, !.query_result = None])
    ELSE IF code \in {"b", "Esc"} /\ IsTableView(a.current_view)
    THEN NoSpawn([a EXCEPT !.current_view = TableList,
                           !.show_query_results = FALSE,
                           !.focused_pane = "Sidebar"])
    ELSE IF code = "q" THEN NoSpawn([a EXCEPT !.running = FALSE])
    ELSE results_navigate(a, code)

\* App::scroll_results (mouse wheel over the results pane)
scroll_results(a, delta) ==
    IF a.show_query_results
    THEN IF IsSome(a.query_result) /\ Unwrap(a.query_result).rows # <<>>
         THEN LET qr == Unwrap(a.query_result)
                  sel == IF delta < 0 THEN SatSub(qr.selected_row, -delta)
                         ELSE Min(qr.selected_row + delta, Len(qr.rows) - 1)
              IN [a EXCEPT !.query_result =
                     Some(QueryResultState_ensure_visible(
                              [qr EXCEPT !.selected_row = sel], DEFAULT_VISIBLE_ROWS))]
         ELSE a
    ELSE IF IsTableView(a.current_view) /\ a.current_view.state.rows # <<>>
    THEN LET state == a.current_view.state
             sel == IF delta < 0 THEN SatSub(state.selected_row, -delta)
                    ELSE Min(state.selected_row + delta, Len(state.rows) - 1)
         IN [a EXCEPT !.current_view =
                TableView(TableViewState_ensure_visible(
                              [state EXCEPT !.selected_row = sel], DEFAULT_VISIBLE_ROWS))]
    ELSE a

\* ------------------------------------------------------------ sidebar tree
\* The last node of a path (selected.last()).
LastNode(path) == path[Len(path)]

\* App::tree_collapse
tree_collapse(a) ==
    LET selected == a.tree_state.selected
    IN IF selected = <<>> THEN a
       ELSE IF selected \in a.tree_state.opened
       THEN [a EXCEPT !.tree_state = tree_close(@, selected)]
       ELSE IF Len(selected) > 1
       THEN [a EXCEPT !.tree_state = tree_select(@, SubSeq(selected, 1, Len(selected) - 1))]
       ELSE a

\* activate_table_or_column leaving the focus on the tree after a column insert.
activate_table_or_column_keeps_focus(a, selected, is_open) ==
    LET node == LastNode(selected)
    IN IF node[1] = "Table"
       THEN IF is_open
            THEN LET r == open_schema_table(a, node[2], node[3])
                 IN Result([r.app EXCEPT !.focused_pane = "Results"], r.spawn)
            ELSE NoSpawn([a EXCEPT !.tree_state = tree_open(@, selected)])
       ELSE NoSpawn([a EXCEPT !.sql_editor = insert_str(@, <<node[4]>>)])

\* What both activation handlers do on a Table node and on a Column node.
activate_table_or_column(a, selected, is_open) ==
    LET node == LastNode(selected)
    IN IF node[1] = "Table"
       THEN IF is_open
            THEN LET r == open_schema_table(a, node[2], node[3])
                 IN Result([r.app EXCEPT !.focused_pane = "Results"], r.spawn)
            ELSE NoSpawn([a EXCEPT !.tree_state = tree_open(@, selected)])
       ELSE NoSpawn([a EXCEPT !.sql_editor = insert_str(@, <<node[4]>>),
                              !.focused_pane = "Editor"])

\* App::tree_expand_or_open
tree_expand_or_open(a) ==
    LET selected == a.tree_state.selected
        is_expanded == selected \in a.tree_state.opened
    IN IF selected = <<>> THEN NoSpawn(a)
       ELSE IF LastNode(selected)[1] \in {"Root", "Schema"}
       THEN IF is_expanded THEN NoSpawn(tree_navigate(a, 1))
            ELSE NoSpawn([a EXCEPT !.tree_state = tree_open(@, selected)])
       ELSE activate_table_or_column(a, selected, is_expanded)

\* App::handle_tree_enter
handle_tree_enter(a) ==
    LET selected == a.tree_state.selected
        is_open == selected \in a.tree_state.opened
    IN IF selected = <<>> THEN NoSpawn(a)
       ELSE IF LastNode(selected)[1] \in {"Root", "Schema"}
       THEN IF is_open THEN NoSpawn([a EXCEPT !.tree_state = tree_close(@, selected)])
            ELSE NoSpawn([a EXCEPT !.tree_state = tree_open(@, selected)])
       ELSE activate_table_or_column(a, selected, is_open)

\* App::refresh_schema
refresh_schema(a) ==
    IF ~IsConnected(a) THEN NoSpawn(a)
    ELSE Result(a, <<[type |-> "fetch_database_structure"]>>)

\* App::handle_sidebar_keys
handle_sidebar_keys(a, code) ==
    CASE code \in {"Esc", "q"} -> NoSpawn([a EXCEPT !.running = FALSE])
      [] code \in {"Up", "k"} -> NoSpawn(tree_navigate(a, -1))
      [] code \in {"Down", "j"} -> NoSpawn(tree_navigate(a, 1))
      [] code \in {"Left", "h"} -> NoSpawn(tree_collapse(a))
      [] code \in {"Right", "l"} -> tree_expand_or_open(a)
      [] code \in {"Enter", " "} -> handle_tree_enter(a)
      [] code = "r" -> refresh_schema(a)
      [] code = "PageUp" -> NoSpawn(tree_navigate(a, -DEFAULT_VISIBLE_ROWS))
      [] code = "PageDown" -> NoSpawn(tree_navigate(a, DEFAULT_VISIBLE_ROWS))
      [] code = "Home" ->
           LET paths == get_visible_tree_paths(a)
           IN NoSpawn(IF paths = <<>> THEN a
                      ELSE [a EXCEPT !.tree_state = tree_select(@, paths[1])])
      [] code = "End" ->
           LET paths == get_visible_tree_paths(a)
           IN NoSpawn(IF paths = <<>> THEN a
                      ELSE [a EXCEPT !.tree_state = tree_select(@, paths[Len(paths)])])
      [] OTHER -> NoSpawn(a)

\* ------------------------------------------------------------ input dispatch
\* KeyEvent::code of a named key press: the name without its modifiers.
KeyCodeOf(k) ==
    CASE k \in {"Ctrl+Enter", "Cmd+Enter", "Shift+Enter"} -> "Enter"
      [] k = "Ctrl+j" -> "j"
      [] k = "Ctrl+J" -> "J"
      [] k = "Ctrl+c" -> "c"
      [] k = "Ctrl+C" -> "C"
      [] k = "Shift+Tab" -> "Tab"
      [] k = "Shift+BackTab" -> "BackTab"
      [] k = "Ctrl+Home" -> "Home"
      [] k = "Ctrl+End" -> "End"
      [] OTHER -> k

\* handle_key_events jumping to the editor from the navigation pane only.
handle_key_events_jump_from_sidebar(a, k) ==
    IF k \in {"Ctrl+c", "Ctrl+C"} THEN NoSpawn([a EXCEPT !.running = FALSE])
    ELSE IF KeyCodeOf(k) = "Tab"
    THEN NoSpawn([a EXCEPT !.focused_pane =
                     IF k = "Shift+Tab" THEN FocusedPane_prev(@) ELSE FocusedPane_next(@)])
    ELSE IF KeyCodeOf(k) = "BackTab"
    THEN NoSpawn([a EXCEPT !.focused_pane = FocusedPane_prev(@)])
    ELSE IF k = ":" /\ a.focused_pane = "Sidebar"
    THEN NoSpawn([a EXCEPT !.focused_pane = "Editor"])
    ELSE CASE a.focused_pane = "Editor" -> handle_editor_keys(a, k)
           [] a.focused_pane = "Sidebar" -> handle_sidebar_keys(a, KeyCodeOf(k))
           [] a.focused_pane = "Results" -> handle_results_keys(a, KeyCodeOf(k))
           [] a.focused_pane = "Stats" ->
                NoSpawn(IF KeyCodeOf(k) = "q" THEN [a EXCEPT !.running = FALSE] ELSE a)
           [] a.focused_pane = "Logs" ->
                \* App::handle_logs_keys: every other key only drives the log widget
                NoSpawn(IF KeyCodeOf(k) = "q" THEN [a EXCEPT !.running = FALSE] ELSE a)

\* handle_key_events leaving Ctrl+C to the editor while the editor is focused.
handle_key_events_editor_keeps_ctrl_c(a, k) ==
    IF k \in {"Ctrl+c", "Ctrl+C"} /\ a.focused_pane # "Editor"
    THEN NoSpawn([a EXCEPT !.running = FALSE])
    ELSE IF KeyCodeOf(k) = "Tab"
    THEN NoSpawn([a EXCEPT !.focused_pane =
                     IF k = "Shift+Tab" THEN FocusedPane_prev(@) ELSE FocusedPane_next(@)])
    ELSE IF KeyCodeOf(k) = "BackTab"
    THEN NoSpawn([a EXCEPT !.focused_pane = FocusedPane_prev(@)])
    ELSE IF k = ":" /\ a.focused_pane # "Editor"
    THEN NoSpawn([a EXCEPT !.focused_pane = "Editor"])
    ELSE CASE a.focused_pane = "Editor" -> handle_editor_keys(a, k)
           [] a.focused_pane = "Sidebar" -> handle_sidebar_keys(a, KeyCodeOf(k))
           [] a.focused_pane = "Results" -> handle_results_keys(a, KeyCodeOf(k))
           [] a.focused_pane = "Stats" ->
                NoSpawn(IF KeyCodeOf(k) = "q" THEN [a EXCEPT !.running = FALSE] ELSE a)
           [] a.focused_pane = "Logs" ->
                \* App::handle_logs_keys: every other key only drives the log widget
                NoSpawn(IF KeyCodeOf(k) = "q" THEN [a EXCEPT !.running = FALSE] ELSE a)

\* App::handle_key_events
handle_key_events(a, k) ==
    IF k \in {"Ctrl+c", "Ctrl+C"} THEN NoSpawn([a EXCEPT !.running = FALSE])
    ELSE IF KeyCodeOf(k) = "Tab"
    THEN NoSpawn([a EXCEPT !.focused_pane =
                     IF k = "Shift+Tab" THEN FocusedPane_prev(@) ELSE FocusedPane_next(@)])
    ELSE IF KeyCodeOf(k) = "BackTab"
    THEN NoSpawn([a EXCEPT !.focused_pane = FocusedPane_prev(@)])
    ELSE IF k = ":" /\ a.focused_pane # "Editor"
    THEN NoSpawn([a EXCEPT !.focused_pane = "Editor"])
    ELSE CASE a.focused_pane = "Editor" -> handle_editor_keys(a, k)
           [] a.focused_pane = "Sidebar" -> handle_sidebar_keys(a, KeyCodeOf(k))
           [] a.focused_pane = "Results" -> handle_results_keys(a, KeyCodeOf(k))
           [] a.focused_pane = "Stats" ->
                NoSpawn(IF KeyCodeOf(k) = "q" THEN [a EXCEPT !.running = FALSE] ELSE a)
           [] a.focused_pane = "Logs" ->
                \* App::handle_logs_keys: every other key only drives the log widget
                NoSpawn(IF KeyCodeOf(k) = "q" THEN [a EXCEPT !.running = FALSE] ELSE a)

\* App::scroll_editor
scroll_editor(a, delta) ==
    update_editor_scroll(
        [a EXCEPT !.sql_editor =
            move_cursor_times(@, IF delta < 0 THEN "Up" ELSE "Down",
                              IF delta < 0 THEN -delta ELSE delta)])

\* App::scroll_focused_pane
scroll_focused_pane(a, delta) ==
    CASE a.focused_pane = "Sidebar" -> tree_navigate(a, delta)
      [] a.focused_pane = "Results" -> scroll_results(a, delta)
      [] a.focused_pane = "Editor" -> scroll_editor(a, delta)
      [] a.focused_pane = "Stats" ->
           [a EXCEPT !.stats_scroll_offset =
               IF delta < 0 THEN SatSub(@, -delta) ELSE @ + delta]
      [] a.focused_pane = "Logs" -> a

\* App::handle_mouse_event
handle_mouse_event(a, kind) ==
    CASE kind = "ScrollUp" -> scroll_focused_pane(a, -3)
      [] kind = "ScrollDown" -> scroll_focused_pane(a, 3)
      [] OTHER -> a

\* handle_event counting every Tick as a query of the second.
handle_event_tick_counts(a, event) ==
    CASE event.kind = "Tick" -> NoSpawn([a EXCEPT !.stats.queries_this_second = @ + 1])
      [] event.kind = "Key" -> handle_key_events(a, event.key)
      [] event.kind = "Paste" ->
           NoSpawn(IF a.focused_pane = "Editor"
                   THEN [a EXCEPT !.sql_editor = insert_str(@, event.data)] ELSE a)
      [] event.kind = "Mouse" -> NoSpawn(handle_mouse_event(a, event.mouse))
      [] event.kind = "App" -> handle_app_event(a, event)

\* App::run, the body of one iteration: the event is matched and handled.
handle_event(a, event) ==
    CASE event.kind = "Tick" -> NoSpawn(a)
      [] event.kind = "Key" -> handle_key_events(a, event.key)
      [] event.kind = "Paste" ->
           NoSpawn(IF a.focused_pane = "Editor"
                   THEN [a EXCEPT !.sql_editor = insert_str(@, event.data)] ELSE a)
      [] event.kind = "Mouse" -> NoSpawn(handle_mouse_event(a, event.mouse))
      [] event.kind = "App" -> handle_app_event(a, event)

\* ------------------------------------------------------------ the database
\* What the server may hold when a query reaches it.  A column is its name (one
\* character long); type, nullability and key flag play no part in the state
\* engine.
DbTable(name, cols) == [name |-> name, columns |-> [i \in 1..Len(cols) |-> [name |-> cols[i]]]]
DbFull == <<[name |-> "public", tables |-> <<DbTable("t1", <<"c">>), DbTable("t2", <<>>)>>]>>
DbLess == <<[name |-> "public", tables |-> <<DbTable("t2", <<>>)>>]>>
DbOther == <<[name |-> "public", tables |-> <<>>],
             [name |-> "s2", tables |-> <<DbTable("t1", <<"c">>)>>]>>
DbNone == <<>>
Databases == {DbFull, DbLess, DbOther, DbNone}

\* The tables of the schema `name` in the rows the tables query returned.
RECURSIVE TablesOf(_, _)
TablesOf(raw, name) ==
    IF raw = <<>> THEN <<>>
    ELSE IF Head(raw).name = name THEN Head(raw).tables
    ELSE TablesOf(Tail(raw), name)

\* fetch_database_structure with no default schema: a failed schema query
\* yields no schema at all.
fetch_database_structure_no_default(raw, schemas_fail, tables_fail, columns_fail) ==
    LET names == IF schemas_fail THEN <<>>
                 ELSE [i \in 1..Len(raw) |-> raw[i].name]
        cols(t) == IF columns_fail THEN <<>> ELSE t.columns
        tabs(name) == IF tables_fail THEN <<>>
                      ELSE LET ts == TablesOf(raw, name)
                           IN [j \in 1..Len(ts) |->
                                 [name |-> ts[j].name, columns |-> cols(ts[j])]]
    IN [schemas |-> [i \in 1..Len(names) |-> [name |-> names[i], tables |-> tabs(names[i])]]]

\* fetch_database_structure: each of its queries may fail on its own.  A failed
\* schema query yields the single schema "public", a failed table query no
\* tables, a failed column query no columns.
fetch_database_structure(raw, schemas_fail, tables_fail, columns_fail) ==
    LET names == IF schemas_fail THEN <<"public">>
                 ELSE [i \in 1..Len(raw) |-> raw[i].name]
        cols(t) == IF columns_fail THEN <<>> ELSE t.columns
        tabs(name) == IF tables_fail THEN <<>>
                      ELSE LET ts == TablesOf(raw, name)
                           IN [j \in 1..Len(ts) |->
                                 [name |-> ts[j].name, columns |-> cols(ts[j])]]
    IN [schemas |-> [i \in 1..Len(names) |-> [name |-> names[i], tables |-> tabs(names[i])]]]

\* Row counts a table may have when a page query reaches the server.
RowCounts == {0, 70, 120}

\* fetch_table_page: COUNT(*) and the rows at OFFSET page * PAGE_SIZE, LIMIT
\* PAGE_SIZE, of a table that holds `count` rows.  A row is (table, row number).
fetch_table_page(table_name, page, count) ==
    LET offset == page * PAGE_SIZE
        n == Min(PAGE_SIZE, SatSub(count, offset))
    IN [ok |-> TRUE,
        table_name |-> table_name,
        columns |-> <<"c">>,
        rows |-> [i \in 1..n |-> <<table_name, offset + i>>],
        total_count |-> count,
        page |-> page]

\* fetch_table_page failing.  The event carries only the message; `fetch` is an
\* observer field, never read by a handler, naming the fetch that failed.
FetchError(table_name, page) ==
    [ok |-> FALSE, error |-> "Failed to fetch data", fetch |-> <<table_name, page>>]

ToUpper(c) ==
    CASE c = "a" -> "A" [] c = "b" -> "B" [] c = "c" -> "C" [] c = "h" -> "H"
      [] c = "j" -> "J" [] c = "k" -> "K" [] c = "l" -> "L" [] c = "q" -> "Q"
      [] c = "r" -> "R" [] OTHER -> c

\* query.trim().to_uppercase().starts_with("EXPLAIN")
IsExplain(query) ==
    LET t == Trim(query)
        word == <<"E", "X", "P", "L", "A", "I", "N">>
    IN /\ Len(t) >= Len(word)
       /\ \A i \in 1..Len(word) : ToUpper(t[i]) = word[i]

\* Numbers of rows a query may return.
QueryRowCounts == {0, 20}

\* execute_sql_query, when the server answers with n rows after 5 ms.
execute_sql_query(query, n) ==
    [ok |-> TRUE,
     query |-> query,
     columns |-> IF n = 0 THEN <<>> ELSE <<"c">>,
     rows |-> [i \in 1..n |-> <<"q", i>>],
     row_count |-> n,
     duration_ms |-> 5,
     is_explain |-> IsExplain(query)]

QueryError == [ok |-> FALSE, error |-> "syntax error"]

\* ------------------------------------------------------------ events
TickEvent == [kind |-> "Tick"]
KeyEvent(k) == [kind |-> "Key", key |-> k]
MouseEvent(m) == [kind |-> "Mouse", mouse |-> m]
PasteEvent(d) == [kind |-> "Paste", data |-> d]
ConnectionResult(r) == [kind |-> "App", app |-> "ConnectionResult", result |-> r]
\* `from` is an observer field: the task that fetched the structure and whether
\* every query of the fetch failed.
SchemaLoaded(st, from) ==
    [kind |-> "App", app |-> "SchemaLoaded", structure |-> st, from |-> from]
TableDataLoaded(r) == [kind |-> "App", app |-> "TableDataLoaded", result |-> r]
QueryExecuted(r) == [kind |-> "App", app |-> "QueryExecuted", result |-> r]
StatsUpdated(update) == [kind |-> "App", app |-> "StatsUpdated", update |-> update]
SparklineTick(pool_size) == [kind |-> "App", app |-> "SparklineTick", pool_size |-> pool_size]

\* Where the task of App::start_stats_task stands when it starts: before its
\* first fetch, with stats_counter at 0.  `emitted` is an observer field: the
\* kinds of the events the task has sent, oldest first.
StatsPcStart == [at |-> "first_fetch", stats_counter |-> 0, emitted |-> <<>>]

\* ------------------------------------------------------------ state
VARIABLES
    app,          \* the App object
    queue,        \* the unbounded mpsc channel of EventHandler, oldest event first
    tasks,        \* bag of one-shot background tasks spawned and not yet finished
    schema_task,  \* the schema poller: "none", "running", "done" or "aborted", or
                  \* "aborting" (abort requested in the middle of a turn)
    stats_task,   \* the stats poller: "none", "running", "done" or "aborted", or
                  \* "aborting" (abort requested in the middle of a turn)
    stats_pc,     \* the stats poller's position in its body and its stats_counter
    dropped,      \* run() has returned and the App (with its receiver) is dropped
    trace_on,     \* whether the channel observer below records
    sent,         \* observer: every event accepted by the channel, in send order
    handled,      \* observer: every event dispatched by run(), in dispatch order
    hist_probe,   \* observer: the history browse in progress
    schema_probe  \* observer: the last structure applied, if a failed refresh

vars == <<app, queue, tasks, schema_task, stats_task, stats_pc, dropped, trace_on, sent, handled,
          hist_probe, schema_probe>>

RECURSIVE SeqToBag(_)
SeqToBag(seq) ==
    IF seq = <<>> THEN EmptyBag ELSE SetToBag({Head(seq)}) (+) SeqToBag(Tail(seq))

OneShot(t) == t.type \in {"connect_to_database", "fetch_database_structure",
                          "fetch_table_page", "execute_sql_query"}
Spawns(spawn, type) == \E i \in 1..Len(spawn) : spawn[i].type = type

\* No browse is being observed.
ProbeIdle == [ok |-> FALSE, orig |-> <<>>, ups |-> 0, downs |-> 0]

\* Observer of history browsing: the editor text when a browse started, and how
\* many browse-up and then browse-down steps followed it with nothing else
\* touching the editor text or the history in between.
probe_step(a, event, a2, probe) ==
    LET in_editor == event.kind = "Key" /\ a.focused_pane = "Editor"
                     /\ handle_key_events(a, event.key) = handle_editor_keys(a, event.key)
        is_up == in_editor /\ event.key = "Up" /\ a.sql_editor.row = 0
                 /\ a.query_history # <<>>
        is_down == in_editor /\ event.key = "Down" /\ IsSome(a.history_index)
                   /\ a.sql_editor.row >= SatSub(Len(a.sql_editor.lines), 1)
        untouched == /\ a2.sql_editor.lines = a.sql_editor.lines
                     /\ a2.query_history = a.query_history
                     /\ a2.history_index = a.history_index
                     /\ a2.saved_editor_content = a.saved_editor_content
    IN CASE is_up /\ a.history_index = None ->
              [ok |-> TRUE, orig |-> a.sql_editor.lines, ups |-> 1, downs |-> 0]
         [] is_up /\ a.history_index # None ->
              IF probe.ok /\ probe.downs = 0 /\ probe.ups < Len(a.query_history)
              THEN [probe EXCEPT !.ups = @ + 1] ELSE ProbeIdle
         [] is_down ->
              IF probe.ok /\ probe.downs < probe.ups
              THEN [probe EXCEPT !.downs = @ + 1] ELSE ProbeIdle
         [] OTHER -> IF untouched THEN probe ELSE ProbeIdle

\* Observer of the schema poller: whether the structure applied last came from
\* a refresh of the poller in which every query failed, and the structure the
\* application held before it.
SchemaProbeIdle == [failed_refresh |-> FALSE, before |-> None]

schema_probe_step(a, event, probe) ==
    IF event.kind = "App" /\ event.app = "SchemaLoaded"
    THEN IF event.from.task = "schema_refresh_task" /\ event.from.failed
         THEN [failed_refresh |-> TRUE, before |-> a.db_structure]
         ELSE SchemaProbeIdle
    ELSE probe

\* A channel that hands out the newest event first.
Enqueue_in_front(e) ==
    /\ queue' = IF dropped THEN queue ELSE <<e>> \o queue
    /\ sent' = IF trace_on /\ ~dropped THEN Append(sent, e) ELSE sent

\* An event enters the channel (UnboundedSender::send); after the receiver is
\* dropped the send fails and the event is lost.
Enqueue(e) ==
    /\ queue' = IF dropped THEN queue ELSE Append(queue, e)
    /\ sent' = IF trace_on /\ ~dropped THEN Append(sent, e) ELSE sent

\* Room for one more event within the bounds of the model.
CanSend == Len(queue) < MaxQueue /\ (trace_on => Len(sent) < MaxSent)

NumKeys(q) == Cardinality({i \in 1..Len(q) : q[i].kind \in {"Key", "Paste"}})

\* Queries submitted so far, counting the execute keys still in the channel.
QueriesStarted ==
    app.stats.queries_run
    + Cardinality({t \in BagToSet(tasks) : t.type = "execute_sql_query"})
    + Cardinality({i \in 1..Len(queue) :
                     \/ queue[i].kind = "Key" /\ is_execute_key_combo(queue[i].key)
                     \/ queue[i].kind = "App" /\ queue[i].app = "QueryExecuted"})

\* The longest line and the most lines among the texts the editor may take.
Texts(a) ==
    {a.sql_editor.lines}
    \cup {SplitNL(a.query_history[i], <<>>) : i \in 1..Len(a.query_history)}
    \cup (IF IsSome(a.saved_editor_content)
          THEN {SplitNL(Unwrap(a.saved_editor_content), <<>>)} ELSE {})
RoomToType(a, k) ==
    \A t \in Texts(a) :
        IF k = "Enter" THEN Len(t) < MaxLines
        ELSE \A i \in 1..Len(t) : Len(t[i]) < MaxLineLen

\* Execute keys still in the channel.
ExecuteKeys(q) ==
    Cardinality({i \in 1..Len(q) : q[i].kind = "Key" /\ is_execute_key_combo(q[i].key)})

\* Init: the state App::new leaves, with its connection task running.
Init ==
    /\ app = AppNew
    /\ queue = <<>>
    /\ tasks = SetToBag({[type |-> "connect_to_database"]})
    /\ schema_task = "none"
    /\ stats_task = "none"
    /\ stats_pc = StatsPcStart
    /\ dropped = FALSE
    /\ trace_on = FALSE
    /\ sent = <<>>
    /\ handled = <<>>
    /\ hist_probe = ProbeIdle
    /\ schema_probe = SchemaProbeIdle

\* ------------------------------------------------------------ the dispatcher
\* App::run, one iteration of the loop on an event of the given kind: the oldest
\* event leaves the channel and is handled; the tasks the handler spawned start.
Dispatch(kind) ==
    /\ app.running /\ ~dropped
    /\ queue # <<>> /\ Head(queue).kind = kind
    /\ LET e == Head(queue)
           r == handle_event(app, e)
       IN /\ app' = r.app
          /\ queue' = Tail(queue)
          /\ tasks' = tasks (+) SeqToBag(SelectSeq(r.spawn, OneShot))
          /\ schema_task' = IF Spawns(r.spawn, "schema_refresh_task") THEN "running"
                            ELSE schema_task
          /\ stats_task' = IF Spawns(r.spawn, "stats_task") THEN "running" ELSE stats_task
          /\ stats_pc' = IF Spawns(r.spawn, "stats_task") THEN StatsPcStart ELSE stats_pc
          /\ handled' = IF trace_on THEN Append(handled, e) ELSE handled
          /\ hist_probe' = probe_step(app, e, r.app, hist_probe)
          /\ schema_probe' = schema_probe_step(app, e, schema_probe)
    /\ UNCHANGED <<dropped, trace_on, sent>>

DispatchTick == Dispatch("Tick")
DispatchKey == Dispatch("Key")
DispatchMouse == Dispatch("Mouse")
DispatchPaste == Dispatch("Paste")
DispatchApp == Dispatch("App")

\* run() returns once running is false; the App is dropped: Drop aborts the
\* pollers it holds handles of, and the receiver goes with the queued events.
AppDrop ==
    /\ ~app.running /\ ~dropped
    /\ dropped' = TRUE
    /\ queue' = <<>>
    /\ schema_task' = IF IsSome(app.schema_handle) /\ schema_task = "running"
                      THEN "aborted" ELSE schema_task
    /\ stats_task' = IF IsSome(app.stats_handle) /\ stats_task = "running"
                     THEN "aborted" ELSE stats_task
    /\ UNCHANGED <<app, tasks, stats_pc, trace_on, sent, handled, hist_probe, schema_probe>>

\* ------------------------------------------------------------ EventTask
\* EventTask::run: a tick of the 30 Hz interval.
SendTick ==
    /\ ~dropped /\ CanSend
    /\ Enqueue(TickEvent)
    /\ UNCHANGED <<app, tasks, schema_task, stats_task, stats_pc, dropped, trace_on, handled,
                   hist_probe, schema_probe>>

\* EventTask::run: a key press read from the terminal.  The user types only
\* while the editor has room and while few tasks are in flight.
SendKey(k) ==
    /\ ~dropped /\ CanSend
    /\ BagCardinality(tasks) + NumKeys(queue) < MaxTasks
    /\ (IsCharKey(k) \/ KeyCodeOf(k) \in {"Enter", "Right"}) => NumKeys(queue) = 0
    /\ (IsCharKey(k) \/ k = "Enter") => RoomToType(app, k)
    /\ is_execute_key_combo(k) =>
          /\ QueriesStarted < MaxQueries
          /\ Len(app.query_history) + ExecuteKeys(queue) < MaxHistoryLen
    /\ Enqueue(KeyEvent(k))
    /\ UNCHANGED <<app, tasks, schema_task, stats_task, stats_pc, dropped, trace_on, handled,
                   hist_probe, schema_probe>>

\* EventTask::run: a mouse wheel event.
SendMouse(m) ==
    /\ ~dropped /\ CanSend
    /\ Enqueue(MouseEvent(m))
    /\ UNCHANGED <<app, tasks, schema_task, stats_task, stats_pc, dropped, trace_on, handled,
                   hist_probe, schema_probe>>

\* ------------------------------------------------------------ one-shot tasks
Finish(t) == tasks' = tasks (-) SetToBag({t})
Running(type) == {t \in BagToSet(tasks) : t.type = type}

\* SchemaLoaded events waiting in the channel.
StructuresInFlight ==
    Cardinality({i \in 1..Len(queue) :
                   queue[i].kind = "App" /\ queue[i].app = "SchemaLoaded"})

\* The task spawned by App::new: connect_to_database ends, its result is sent.
ConnectDone ==
    /\ CanSend
    /\ \E t \in Running("connect_to_database") :
         /\ Finish(t)
         /\ \E r \in {[ok |-> TRUE, db_name |-> "db"],
                      [ok |-> FALSE, error |-> "connection refused"]} :
              Enqueue(ConnectionResult(r))
    /\ UNCHANGED <<app, schema_task, stats_task, stats_pc, dropped, trace_on, handled, hist_probe, schema_probe>>

\* A one-shot structure fetch (after connecting, or on the refresh key) ends.
FetchStructureDone ==
    /\ CanSend /\ StructuresInFlight < MaxLoads
    /\ \E t \in Running("fetch_database_structure") :
         /\ Finish(t)
         /\ \E raw \in Databases, sf, tf, cf \in BOOLEAN :
              Enqueue(SchemaLoaded(fetch_database_structure(raw, sf, tf, cf),
                                   [task |-> "fetch_database_structure",
                                    failed |-> sf /\ tf /\ cf]))
    /\ UNCHANGED <<app, schema_task, stats_task, stats_pc, dropped, trace_on, handled, hist_probe, schema_probe>>

\* The task of App::fetch_table_data ends: the page as the table is now, or an
\* error.
FetchPageDone ==
    /\ CanSend
    /\ \E t \in Running("fetch_table_page") :
         /\ Finish(t)
         /\ \E r \in {fetch_table_page(t.table_name, t.page, n) : n \in RowCounts}
                     \cup {FetchError(t.table_name, t.page)} :
              Enqueue(TableDataLoaded(r))
    /\ UNCHANGED <<app, schema_task, stats_task, stats_pc, dropped, trace_on, handled, hist_probe, schema_probe>>

\* The task of App::execute_query ends.
QueryDone ==
    /\ CanSend
    /\ \E t \in Running("execute_sql_query") :
         /\ Finish(t)
         /\ \E r \in {execute_sql_query(t.query, n) : n \in QueryRowCounts}
                     \cup {QueryError} :
              Enqueue(QueryExecuted(r))
    /\ UNCHANGED <<app, schema_task, stats_task, stats_pc, dropped, trace_on, handled, hist_probe, schema_probe>>

\* ------------------------------------------------------------ schema poller
\* sqlx's PgPool::is_closed: nothing in the program closes the pool.
pool_is_closed == FALSE

\* The task of App::start_schema_refresh_task, one turn of its loop: the
\* interval fires; the task ends if the channel or the pool is closed, otherwise
\* it fetches the structure and sends it, ending if the send fails.
SchemaRefreshTick ==
    /\ schema_task \in {"running", "aborting"}
    /\ dropped \/ (CanSend /\ StructuresInFlight < MaxLoads)
    /\ IF dropped \/ pool_is_closed
       THEN schema_task' = "done" /\ UNCHANGED <<queue, sent>>
       ELSE /\ \E raw \in Databases, sf, tf, cf \in BOOLEAN :
                 Enqueue(SchemaLoaded(fetch_database_structure(raw, sf, tf, cf),
                                      [task |-> "schema_refresh_task",
                                       failed |-> sf /\ tf /\ cf]))
            /\ schema_task' = "running"
    /\ UNCHANGED <<app, tasks, stats_task, stats_pc, dropped, trace_on, handled, hist_probe, schema_probe>>

\* ------------------------------------------------------------ stats poller
\* MaxSeconds: one-second periods the stats poller lives through.
MaxSeconds == 10

\* What `SELECT version()` may answer, as whitespace-separated words.
ServerVersions == {<<"PostgreSQL", "16.2", "on", "x86_64-pc-linux-gnu">>}

\* The row totals pg_stat_user_tables may give.
RowTotals == {3}

\* The sizes PgPool::size may report.
PoolSizes == {1, 2}

\* v.split_whitespace().take(2).collect::<Vec<_>>().join(" ")
RECURSIVE JoinWords(_)
JoinWords(words) ==
    IF words = <<>> THEN ""
    ELSE IF Len(words) = 1 THEN words[1]
    ELSE words[1] \o " " \o JoinWords(Tail(words))
FirstTwoWords(words) ==
    JoinWords(SubSeq(words, 1, IF Len(words) < 2 THEN Len(words) ELSE 2))

\* fetch_stats: each of its two queries may fail (None) on its own; a failed
\* query leaves its default in the update, and the update is always Some.
fetch_stats(version, total) ==
    Some([pg_version |-> IF IsSome(version) THEN FirstTwoWords(Unwrap(version))
                         ELSE "Unknown",
          total_rows |-> IF IsSome(total) THEN Unwrap(total) ELSE 0])

StatsAnswers ==
    {fetch_stats(v, t) : v \in {None} \cup {Some(w) : w \in ServerVersions},
                         t \in {None} \cup {Some(n) : n \in RowTotals}}

\* SparklineTick events the stats task has sent.
TicksEmitted ==
    Cardinality({i \in 1..Len(stats_pc.emitted) : stats_pc.emitted[i] = "SparklineTick"})

\* stats_counter >= 5
refetch_due_after_four(stats_counter) == stats_counter >= 4
refetch_due(stats_counter) == stats_counter >= 5

\* The task of App::start_stats_task, before its loop: the first fetch; its
\* update is sent and the result of the send is ignored; the first tick of the
\* interval completes at once.  A task whose abort was requested ends at that
\* await.
StatsFirstFetch ==
    /\ stats_task \in {"running", "aborting"} /\ stats_pc.at = "first_fetch"
    /\ dropped \/ CanSend
    /\ IF dropped
       THEN stats_task' = "aborted" /\ UNCHANGED <<queue, sent, stats_pc>>
       ELSE /\ \E update \in StatsAnswers : Enqueue(StatsUpdated(Unwrap(update)))
            /\ stats_pc' = [stats_pc EXCEPT !.at = "tick",
                                             !.emitted = Append(@, "StatsUpdated")]
            /\ stats_task' = "running"
    /\ UNCHANGED <<app, tasks, schema_task, dropped, trace_on, handled, hist_probe, schema_probe>>

\* One turn of the loop up to the counter test: the one-second interval fires;
\* the task ends if the channel or the pool is closed; otherwise it sends a
\* SparklineTick with the pool's size and counts it.
StatsTick(pool_size) ==
    /\ stats_task \in {"running", "aborting"} /\ stats_pc.at = "tick"
    /\ dropped \/ (CanSend /\ TicksEmitted < MaxSeconds)
    /\ IF dropped \/ pool_is_closed
       THEN stats_task' = "done" /\ UNCHANGED <<queue, sent, stats_pc>>
       ELSE /\ Enqueue(SparklineTick(pool_size))
            /\ LET n == stats_pc.stats_counter + 1
               IN stats_pc' = [stats_pc EXCEPT
                      !.at = IF refetch_due(n) THEN "refetch" ELSE "tick",
                      !.stats_counter = IF refetch_due(n) THEN 0 ELSE n,
                      !.emitted = Append(@, "SparklineTick")]
            /\ stats_task' = "running"
    /\ UNCHANGED <<app, tasks, schema_task, dropped, trace_on, handled, hist_probe, schema_probe>>

\* StatsRefetch giving up when the version query of its fetch fails.
StatsRefetch_ends_on_failure ==
    /\ stats_task \in {"running", "aborting"} /\ stats_pc.at = "refetch"
    /\ dropped \/ CanSend
    /\ \E update \in StatsAnswers :
         IF dropped \/ Unwrap(update).pg_version = "Unknown"
         THEN stats_task' = "done" /\ UNCHANGED <<queue, sent, stats_pc>>
         ELSE /\ Enqueue(StatsUpdated(Unwrap(update)))
              /\ stats_pc' = [stats_pc EXCEPT !.at = "tick",
                                               !.emitted = Append(@, "StatsUpdated")]
              /\ stats_task' = "running"
    /\ UNCHANGED <<app, tasks, schema_task, dropped, trace_on, handled, hist_probe, schema_probe>>

\* The rest of a turn whose counter test passed: the stats are fetched again
\* and sent; the task ends if the send fails.
StatsRefetch ==
    /\ stats_task \in {"running", "aborting"} /\ stats_pc.at = "refetch"
    /\ dropped \/ CanSend
    /\ IF dropped
       THEN stats_task' = "done" /\ UNCHANGED <<queue, sent, stats_pc>>
       ELSE /\ \E update \in StatsAnswers : Enqueue(StatsUpdated(Unwrap(update)))
            /\ stats_pc' = [stats_pc EXCEPT !.at = "tick",
                                             !.emitted = Append(@, "StatsUpdated")]
            /\ stats_task' = "running"
    /\ UNCHANGED <<app, tasks, schema_task, dropped, trace_on, handled, hist_probe, schema_probe>>

\* Drop for App aborting the stats poller only.
AppDropAsync_keeps_schema_poller ==
    /\ ~app.running /\ ~dropped
    /\ dropped' = TRUE
    /\ queue' = <<>>
    /\ schema_task' = schema_task
    /\ stats_task' \in IF IsSome(app.stats_handle) /\ stats_task = "running"
                       THEN {"aborted", "aborting"} ELSE {stats_task}
    /\ UNCHANGED <<app, tasks, stats_pc, trace_on, sent, handled, hist_probe, schema_probe>>

\* Drop for App while pollers may be in the middle of a turn on another worker
\* thread: JoinHandle::abort ends a task that is parked at an await at once
\* ("aborted"), and a task that is running only when it next reaches an await
\* ("aborting"), so such a task takes one more step, with the channel closed.
AppDropAsync ==
    /\ ~app.running /\ ~dropped
    /\ dropped' = TRUE
    /\ queue' = <<>>
    /\ schema_task' \in IF IsSome(app.schema_handle) /\ schema_task = "running"
                        THEN {"aborted", "aborting"} ELSE {schema_task}
    /\ stats_task' \in IF IsSome(app.stats_handle) /\ stats_task = "running"
                       THEN {"aborted", "aborting"} ELSE {stats_task}
    /\ UNCHANGED <<app, tasks, stats_pc, trace_on, sent, handled, hist_probe, schema_probe>>

\* ------------------------------------------------------------ poller runs
PollKeys == {"r", "Ctrl+c"}

\* MaxPollSeconds: one-second periods of the stats poller while the schema
\* poller is watched as well.
MaxPollSeconds == 5

PollStatsStep ==
    \/ StatsFirstFetch
    \/ \E pool_size \in {1} :
         (dropped \/ TicksEmitted < MaxPollSeconds) /\ StatsTick(pool_size)
    \/ StatsRefetch

NextPoll ==
    \/ DispatchKey
    \/ DispatchApp
    \/ AppDropAsync
    \/ \E k \in PollKeys : SendKey(k)
    \/ ConnectDone
    \/ FetchStructureDone
    \/ SchemaRefreshTick
    \/ PollStatsStep

\* The runtime keeps polling a task that is ready to go on.
SpecPoll ==
    Init /\ [][NextPoll]_vars /\ WF_vars(SchemaRefreshTick) /\ WF_vars(PollStatsStep)

\* The stats poller alone, with every pool size.
StatsStep ==
    \/ StatsFirstFetch
    \/ \E pool_size \in PoolSizes : StatsTick(pool_size)
    \/ StatsRefetch

NextStats ==
    \/ DispatchKey
    \/ DispatchApp
    \/ AppDropAsync
    \/ SendKey("Ctrl+c")
    \/ ConnectDone
    \/ StatsStep

\* The runtime keeps polling a task that is ready to go on.
SpecStats == Init /\ [][NextStats]_vars /\ WF_vars(StatsStep)

Next ==
    \/ DispatchKey
    \/ DispatchApp
    \/ AppDrop
    \/ \E k \in {":", "F5", "a", "Ctrl+c"} : SendKey(k)
    \/ ConnectDone
    \/ FetchStructureDone
    \/ QueryDone

Spec == Init /\ [][Next]_vars

\* ------------------------------------------------------------ table view runs
\* A state the program reaches after connecting: the structure DbFull is loaded,
\* the user has moved the tree selection to table t1 and opened that node.  The
\* handlers themselves compute it.
AppAtTable ==
    LET a1 == on_ConnectionResult(AppNew, [ok |-> TRUE, db_name |-> "db"]).app
        a2 == on_SchemaLoaded(a1, fetch_database_structure(DbFull, FALSE, FALSE, FALSE)).app
        a3 == tree_navigate(tree_navigate(a2, 1), 1)
    IN handle_tree_enter(a3).app

InitTable ==
    /\ app = AppAtTable
    /\ queue = <<>>
    /\ tasks = EmptyBag
    /\ schema_task = "running"
    /\ stats_task = "running"
    /\ stats_pc = StatsPcStart
    /\ dropped = FALSE
    /\ trace_on = FALSE
    /\ sent = <<>>
    /\ handled = <<>>
    /\ hist_probe = ProbeIdle
    /\ schema_probe = SchemaProbeIdle

TableKeys == {"Enter", "b", "End", "Left", "Right"}

NextTable ==
    \/ DispatchKey
    \/ DispatchApp
    \/ \E k \in TableKeys : SendKey(k)
    \/ FetchPageDone

SpecTable == InitTable /\ [][NextTable]_vars

\* ------------------------------------------------------------ claims
\* The (table, page) a TableDataLoaded result was fetched for.
FetchOf(result) == IF result.ok THEN <<result.table_name, result.page>> ELSE result.fetch

\* The dispatcher is about to handle a page result fetched for another
\* (table, page) than the one the table view shows.
StaleResultAtHead ==
    /\ app.running /\ ~dropped /\ queue # <<>>
    /\ Head(queue).kind = "App" /\ Head(queue).app = "TableDataLoaded"
    /\ IsTableView(app.current_view)
    /\ FetchOf(Head(queue).result) #
         <<app.current_view.state.table_name, app.current_view.state.page>>

\* C1: a page result, success or failure, that was fetched for a (table, page)
\* other than the one the current table view shows leaves the TableViewState
\* exactly as it was when it is processed.
C1_StaleResultKeepsView ==
    [][(StaleResultAtHead /\ DispatchApp) => app'.current_view = app.current_view]_vars

\* C2: whenever the current view is a table view, 0 <= page < total_pages(),
\* total_pages being computed from the view's current total_count.
C2_PageInBounds ==
    IsTableView(app.current_view) =>
        /\ app.current_view.state.page >= 0
        /\ app.current_view.state.page < total_pages(app.current_view.state)

\* scroll_offset <= selected_row < scroll_offset + H
ScrollWindowOk(st) ==
    /\ st.scroll_offset <= st.selected_row
    /\ st.selected_row < st.scroll_offset + DEFAULT_VISIBLE_ROWS

\* What C3 says ensure_visible computes from (S, O) with viewport H.
EnsureVisibleAsClaimed(S, O, H) ==
    IF S < O THEN S ELSE IF S >= O + H THEN S - H + 1 ELSE O

\* C3: the table view and the query-result view always satisfy
\* scroll_offset <= selected_row < scroll_offset + DEFAULT_VISIBLE_ROWS, and
\* ensure_visible sets O = S when S < O, O = S - H + 1 when S >= O + H, and
\* leaves O unchanged otherwise.
C3_ScrollInvariant ==
    /\ IsTableView(app.current_view) => ScrollWindowOk(app.current_view.state)
    /\ IsSome(app.query_result) => ScrollWindowOk(Unwrap(app.query_result))
    /\ \A S \in 0..(PAGE_SIZE - 1), O \in 0..(PAGE_SIZE - 1) :
         TableViewState_ensure_visible([selected_row |-> S, scroll_offset |-> O],
                                       DEFAULT_VISIBLE_ROWS).scroll_offset
           = EnsureVisibleAsClaimed(S, O, DEFAULT_VISIBLE_ROWS)

\* Query executions spawned whose QueryExecuted event has not been processed:
\* the tasks still running and the results waiting in the channel.
InFlightQueries ==
    BagCardinality([t \in {x \in BagToSet(tasks) : x.type = "execute_sql_query"} |->
                       tasks[t]])
    + Cardinality({i \in 1..Len(queue) :
                     queue[i].kind = "App" /\ queue[i].app = "QueryExecuted"})

\* C4: while the App lives, at most one query execution is in flight, and
\* query_executing is true exactly when one is.
C4_OneQueryInFlight ==
    ~dropped => /\ InFlightQueries \in {0, 1}
                /\ app.query_executing <=> (InFlightQueries = 1)

\* C4 witness: a second query is in flight, its result already in the channel,
\* after a first one completed.
C4_Witness ==
    /\ ~dropped /\ app.query_executing /\ app.stats.queries_run >= 1
    /\ \E i \in 1..Len(queue) : queue[i].kind = "App" /\ queue[i].app = "QueryExecuted"

\* The dispatcher is about to handle an execute key in the editor while a
\* query is executing.
ExecuteKeyWhileExecuting ==
    /\ app.running /\ ~dropped /\ queue # <<>>
    /\ Head(queue).kind = "Key" /\ is_execute_key_combo(Head(queue).key)
    /\ app.focused_pane = "Editor"
    /\ app.query_executing

\* C5: an execute key handled while query_executing is true changes nothing of
\* the App and spawns nothing; query_executing falls only when a QueryExecuted
\* event is processed; and an execute key handled when no query is executing,
\* with a connection and a text that is not blank, does spawn an execution.
C5_ExecuteWhileExecutingIsNoOp ==
    [][/\ (ExecuteKeyWhileExecuting /\ DispatchKey)
            => (app' = app /\ tasks' = tasks /\ schema_task' = schema_task
                /\ stats_task' = stats_task)
       /\ (app.query_executing /\ ~app'.query_executing)
            => (DispatchApp /\ Head(queue).app = "QueryExecuted")
       /\ (/\ DispatchKey /\ is_execute_key_combo(Head(queue).key)
           /\ app.focused_pane = "Editor" /\ ~app.query_executing /\ IsConnected(app)
           /\ Trim(EditorText(app.sql_editor)) # <<>>)
            => (app'.query_executing /\ BagCardinality(tasks') = BagCardinality(tasks) + 1)
      ]_vars

\* C5 witness: an execute key is at the head of the channel, the editor has the
\* focus and holds a query, and a query is executing.
C5_Witness ==
    /\ ExecuteKeyWhileExecuting
    /\ Trim(EditorText(app.sql_editor)) # <<>>
    /\ app.query_history # <<>>


\* ------------------------------------------------------------ history browsing
\* The user in the editor (":" from the start screen) while the connection
\* attempt is still pending: typing, submitting and browsing the history.
InitHistory ==
    /\ app = handle_key_events(AppNew, ":").app
    /\ queue = <<>>
    /\ tasks = SetToBag({[type |-> "connect_to_database"]})
    /\ schema_task = "none"
    /\ stats_task = "none"
    /\ stats_pc = StatsPcStart
    /\ dropped = FALSE
    /\ trace_on = FALSE
    /\ sent = <<>>
    /\ handled = <<>>
    /\ hist_probe = ProbeIdle
    /\ schema_probe = SchemaProbeIdle

HistoryKeys == {"a", "Enter", "F5", "Up", "Down"}

NextHistory ==
    \/ DispatchKey
    \/ \E k \in HistoryKeys : SendKey(k)

SpecHistory == InitHistory /\ [][NextHistory]_vars

\* C6: history round trip.  Whenever a browse that started from the unsent
\* editor text T went up N times (1 <= N <= history length) and then down N
\* times, with nothing else touching the editor text or the history, the
\* application is back in the non-browsing state (no history index, no saved
\* snapshot) and the editor text is exactly T.
C6_HistoryRoundTrip ==
    (hist_probe.ok /\ hist_probe.ups >= 1 /\ hist_probe.downs = hist_probe.ups)
        => /\ app.history_index = None
           /\ app.saved_editor_content = None
           /\ EditorText(app.sql_editor) = JoinLines(hist_probe.orig)


\* ------------------------------------------------------------ the sidebar tree
\* The session from its start: the connection attempt, the first structure
\* fetch, the schema poller and the user moving in the sidebar tree, opening
\* nodes and asking for a refresh.
TreeKeys == {"Down", "Left", "r"}

NextTree ==
    \/ DispatchKey
    \/ DispatchApp
    \/ \E k \in TreeKeys : SendKey(k)
    \/ ConnectDone
    \/ FetchStructureDone
    \/ SchemaRefreshTick

SpecTree == Init /\ [][NextTree]_vars

\* Every path a structure gives rise to, whatever is opened.
AllPaths(structure) ==
    LET S == structure.schemas
    IN {RootPath}
       \cup {SchemaPath(S[i].name) : i \in 1..Len(S)}
       \cup UNION {{TablePath(S[i].name, S[i].tables[j].name) :
                       j \in 1..Len(S[i].tables)} : i \in 1..Len(S)}
       \cup UNION {UNION {{ColumnPath(S[i].name, S[i].tables[j].name,
                                      S[i].tables[j].columns[k].name) :
                              k \in 1..Len(S[i].tables[j].columns)} :
                             j \in 1..Len(S[i].tables)} : i \in 1..Len(S)}

DerivablePaths(a) ==
    IF a.db_structure = None THEN {} ELSE AllPaths(Unwrap(a.db_structure))

\* The longest prefix of `path` among `paths` (the path itself if it is there).
NearestExisting(path, paths) ==
    LET c == {SubSeq(path, 1, n) : n \in 1..Len(path)} \cap paths
    IN IF c = {} THEN <<>> ELSE CHOOSE q \in c : \A r \in c : Len(r) <= Len(q)

SchemaLoadedAtHead ==
    queue # <<>> /\ Head(queue).kind = "App" /\ Head(queue).app = "SchemaLoaded"

\* C7: tree selection across a structure refresh.  In every state the selected
\* path is empty or a path of the current structure; and when a SchemaLoaded
\* event is applied to a non-empty selection, the selection afterwards is the
\* old one if the new structure has it, and else its nearest ancestor that the
\* new structure has.
C7_SelectionSurvivesRefresh ==
    /\ [](app.tree_state.selected = <<>>
          \/ app.tree_state.selected \in DerivablePaths(app))
    /\ [][(SchemaLoadedAtHead /\ DispatchApp /\ app.tree_state.selected # <<>>)
             => app'.tree_state.selected =
                  NearestExisting(app.tree_state.selected,
                                  AllPaths(Head(queue).structure))]_vars

\* The structure a fetch yields when every query fails.
DefaultStructure == [schemas |-> <<[name |-> "public", tables |-> <<>>]>>]

FailedRefreshAtHead ==
    /\ SchemaLoadedAtHead
    /\ Head(queue).from = [task |-> "schema_refresh_task", failed |-> TRUE]

\* C8 as stated: a failed background refresh leaves the structure, the table
\* list and the table count as they were, and the poller keeps running.
C8_FailedRefreshKeepsStructure ==
    [][(FailedRefreshAtHead /\ DispatchApp)
          => /\ app'.db_structure = app.db_structure
             /\ app'.tables = app.tables
             /\ app'.stats.table_count = app.stats.table_count
             /\ schema_task' = "running"]_vars

\* C8 as the code has it: a background refresh in which every query fails
\* delivers the default structure (the single schema "public" without tables),
\* which replaces the structure held before: the table list becomes empty and
\* the table count 0.  Nothing else of the tree state changes, no error is
\* shown, and the poller keeps running: a running poller never stops while the
\* application lives.
C8_FailedRefreshYieldsDefault ==
    /\ [][(FailedRefreshAtHead /\ DispatchApp)
             => /\ Head(queue).structure = DefaultStructure
                /\ app'.db_structure = Some(DefaultStructure)
                /\ app'.tables = <<>>
                /\ app'.stats.table_count = 0
                /\ app'.tree_state.opened = app.tree_state.opened
                /\ app'.current_view = app.current_view
                /\ app'.connection = app.connection
                /\ schema_task' = "running"]_vars
    /\ [][(schema_task = "running" /\ ~dropped') => schema_task' = "running"]_vars

\* A failed refresh has replaced a structure that had tables, and the poller is
\* still running.
C8_Witness ==
    /\ schema_probe.failed_refresh
    /\ IsSome(schema_probe.before)
    /\ TableCount(Unwrap(schema_probe.before).schemas) > 0
    /\ app.db_structure = Some(DefaultStructure)
    /\ app.tables = <<>>
    /\ app.stats.table_count = 0
    /\ schema_task = "running"


\* ------------------------------------------------------------ the event bus
\* The channel under observation: every event the channel accepts is recorded
\* in `sent`, every event run() dispatches in `handled`.  The producers are the
\* terminal task (ticks, keys, the mouse wheel) and the connection task; the
\* user cycles the focus and may quit.
InitBus ==
    /\ app = AppNew
    /\ queue = <<>>
    /\ tasks = SetToBag({[type |-> "connect_to_database"]})
    /\ schema_task = "none"
    /\ stats_task = "none"
    /\ stats_pc = StatsPcStart
    /\ dropped = FALSE
    /\ trace_on = TRUE
    /\ sent = <<>>
    /\ handled = <<>>
    /\ hist_probe = ProbeIdle
    /\ schema_probe = SchemaProbeIdle

BusKeys == {"Tab", "Shift+Tab", "Ctrl+c"}

DispatchAny == DispatchTick \/ DispatchKey \/ DispatchMouse \/ DispatchApp

NextBus ==
    \/ DispatchTick
    \/ DispatchKey
    \/ DispatchMouse
    \/ DispatchApp
    \/ AppDrop
    \/ SendTick
    \/ \E k \in BusKeys : SendKey(k)
    \/ SendMouse("ScrollDown")
    \/ ConnectDone

\* run() takes the next event whenever one is waiting, and returns once the
\* quit flag is set.
SpecBus ==
    InitBus /\ [][NextBus]_vars /\ WF_vars(DispatchAny) /\ WF_vars(AppDrop)

\* C9: events are dispatched one at a time in the order they were enqueued.
\* While the application lives, the events sent are exactly the events handled
\* followed by the events still waiting, in that order (none dropped, reordered
\* or coalesced); a dispatch takes the event at the head of the queue and only
\* while the quit flag is unset; and every event sent is eventually dispatched
\* unless the quit flag is set first.
C9_DispatchInSendOrder ==
    /\ [](~dropped => sent = handled \o queue)
    /\ [][handled' # handled
            => /\ app.running
               /\ queue # <<>>
               /\ handled' = Append(handled, Head(queue))
               /\ queue' = Tail(queue)]_vars
    /\ [][~app.running => handled' = handled]_vars
    /\ \A n \in 1..MaxSent :
         (Len(sent) >= n) ~> (Len(handled) >= n \/ ~app.running)

\* Events of three producers have been dispatched, the last one a quit key that
\* left a later event undispatched.
C9_Witness ==
    /\ Len(handled) >= 3
    /\ \E i, j, k \in 1..Len(handled) :
         /\ handled[i].kind = "Tick"
         /\ handled[j].kind = "Key"
         /\ handled[k].kind = "App"
    /\ handled[Len(handled)] = KeyEvent("Ctrl+c")
    /\ ~app.running
    /\ ~dropped
    /\ queue # <<>>
    /\ sent = handled \o queue

\* next applied n times.
RECURSIVE NextTimes(_, _)
NextTimes(p, n) == IF n = 0 THEN p ELSE NextTimes(FocusedPane_next(p), n - 1)

\* How many of the events of a log are presses of the key k.
Presses(log, k) == Cardinality({i \in 1..Len(log) : log[i] = KeyEvent(k)})

\* C10: the focus ring.  For each of the five panes, next applied five times
\* gives the pane back and fewer applications never do; prev undoes next and
\* next undoes prev.  In the running application the focus is therefore fixed
\* by the Tab presses handled minus the Shift+Tab presses handled, modulo 5.
C10_FocusRing ==
    /\ \A p \in Panes :
         /\ NextTimes(p, 5) = p
         /\ \A n \in 1..4 : NextTimes(p, n) # p
         /\ FocusedPane_prev(FocusedPane_next(p)) = p
         /\ FocusedPane_next(FocusedPane_prev(p)) = p
    /\ app.focused_pane =
         NextTimes("Sidebar",
                   (Presses(handled, "Tab") + 4 * Presses(handled, "Shift+Tab")) % 5)

\* Five Tab presses have been handled and the focus is back where it started.
C10_Witness ==
    /\ Presses(handled, "Tab") = 5
    /\ app.focused_pane = "Sidebar"

\* ------------------------------------------------------------ page turns
\* The dispatcher is about to hand a page-turn key to the table view.
PageKeyAtHead ==
    /\ app.running /\ ~dropped /\ queue # <<>>
    /\ Head(queue).kind = "Key"
    /\ Head(queue).key \in {"Left", "h", "Right", "l"}
    /\ app.focused_pane = "Results"
    /\ IsTableView(app.current_view)

\* The page the key at the head of the channel asks for.
TurnTarget ==
    IF Head(queue).key \in {"Left", "h"}
    THEN app.current_view.state.page - 1
    ELSE app.current_view.state.page + 1

\* The turn is permitted: nothing is loading and the target page exists.
TurnPermitted ==
    LET st == app.current_view.state
    IN /\ ~app.show_query_results
       /\ ~st.loading
       /\ IF Head(queue).key \in {"Left", "h"} THEN st.page > 0
          ELSE st.page < total_pages(st) - 1

FetchTask(table_name, page) ==
    [type |-> "fetch_table_page", table_name |-> table_name, page |-> page]

\* C11: a page-turn key handled by the table view while nothing is loading and
\* the target page is within [0, total_pages) moves the page by exactly one,
\* resets selected_row and scroll_offset to 0, sets loading and issues exactly
\* one fetch for (table_name, new page), leaving the rest of the view as it was;
\* handled in any other state it changes nothing of the view and issues no
\* fetch.  The page of a table view never changes in any other way.
C11_PageTurn ==
    [][/\ (PageKeyAtHead /\ DispatchKey /\ TurnPermitted)
            => /\ app'.current_view =
                    TableView([app.current_view.state EXCEPT
                                  !.page = TurnTarget,
                                  !.selected_row = 0,
                                  !.scroll_offset = 0,
                                  !.loading = TRUE])
               /\ tasks' = tasks (+) SetToBag({FetchTask(app.current_view.state.table_name,
                                                         TurnTarget)})
       /\ (PageKeyAtHead /\ DispatchKey /\ ~TurnPermitted)
            => (app'.current_view = app.current_view /\ tasks' = tasks)
       /\ (/\ IsTableView(app.current_view) /\ IsTableView(app'.current_view)
           /\ app'.current_view.state.page # app.current_view.state.page)
            => (PageKeyAtHead /\ DispatchKey /\ TurnPermitted)
      ]_vars

\* C11 witness: the view was turned back from page 1 to page 0: page 0 is
\* loading, its fetch is in flight, and the rows still shown are those of
\* page 1.
C11_Witness ==
    /\ IsTableView(app.current_view)
    /\ LET st == app.current_view.state
       IN /\ st.page = 0 /\ st.loading
          /\ st.selected_row = 0 /\ st.scroll_offset = 0
          /\ st.rows # <<>> /\ st.rows[1] = <<st.table_name, PAGE_SIZE + 1>>
          /\ FetchTask(st.table_name, 0) \in BagToSet(tasks)

\* ------------------------------------------------------------ the paging scenario
\* What fetch_table_page returns for page p of the table of the scenario.
ScenarioResult(p) == fetch_table_page("t1", p, 120)

\* The table view of t1 with page 0 of its 120 rows applied.
AppAtPage0 ==
    on_TableDataLoaded(handle_tree_enter(AppAtTable).app, ScenarioResult(0)).app

InitPages ==
    /\ app = AppAtPage0
    /\ queue = <<>>
    /\ tasks = EmptyBag
    /\ schema_task = "running"
    /\ stats_task = "running"
    /\ stats_pc = StatsPcStart
    /\ dropped = FALSE
    /\ trace_on = TRUE
    /\ sent = <<>>
    /\ handled = <<>>
    /\ hist_probe = ProbeIdle
    /\ schema_probe = SchemaProbeIdle

PageKeys == {"Left", "Right"}

NextPages ==
    \/ DispatchKey
    \/ DispatchApp
    \/ \E k \in PageKeys : SendKey(k)
    \/ FetchPageDone

SpecPages == InitPages /\ [][NextPages]_vars

\* right, right, left, each pressed after the previous page's result was applied.
ScenarioEvents ==
    <<KeyEvent("Right"), TableDataLoaded(ScenarioResult(1)),
      KeyEvent("Right"), TableDataLoaded(ScenarioResult(2)),
      KeyEvent("Left")>>

\* The page shown and the number of fetches issued after each step of the scenario.
ScenarioPage == <<0, 1, 1, 2, 2, 1>>
ScenarioFetches == <<0, 1, 1, 2, 2, 3>>

RECURSIVE PagesOf(_)
\* The pages of the fetches whose results were sent, in send order.
PagesOf(events) ==
    IF events = <<>> THEN <<>>
    ELSE LET e == Head(events)
         IN (IF e.kind = "App" /\ e.app = "TableDataLoaded"
             THEN <<FetchOf(e.result)[2]>> ELSE <<>>) \o PagesOf(Tail(events))

\* The pages of the fetches issued so far: the finished ones, then the one in flight.
IssuedPages ==
    PagesOf(sent) \o (IF tasks = EmptyBag THEN <<>>
                      ELSE <<(CHOOSE t \in BagToSet(tasks) : TRUE).page>>)

\* C12: for a table of 120 rows, once page 0 is loaded total_pages() = 3;
\* after right, right, left, each handled after the previous page's result was
\* applied, the view is on page 1, and the fetches issued along the way are
\* exactly those for pages 1, 2 and 1, in that order.
C12_PagingScenario ==
    \A k \in 0..Len(ScenarioEvents) :
        handled = SubSeq(ScenarioEvents, 1, k) =>
            /\ IsTableView(app.current_view)
            /\ app.current_view.state.table_name = "t1"
            /\ total_pages(app.current_view.state) = 3
            /\ app.current_view.state.page = ScenarioPage[k + 1]
            /\ BagCardinality(tasks) <= 1
            /\ IssuedPages = SubSeq(<<1, 2, 1>>, 1, ScenarioFetches[k + 1])

\* C12 witness: the whole scenario was handled.
C12_Witness ==
    /\ handled = ScenarioEvents
    /\ app.current_view.state.page = 1
    /\ IssuedPages = <<1, 2, 1>>

\* ------------------------------------------------------------ total_pages
\* The largest row count of the tables drawn below.
MaxCount == 120

\* The table view of t1 with page 0 applied, for every row count up to MaxCount.
InitCount ==
    /\ \E c \in 0..MaxCount :
         app = on_TableDataLoaded(handle_tree_enter(AppAtTable).app,
                                  fetch_table_page("t1", 0, c)).app
    /\ queue = <<>>
    /\ tasks = EmptyBag
    /\ schema_task = "running"
    /\ stats_task = "running"
    /\ stats_pc = StatsPcStart
    /\ dropped = FALSE
    /\ trace_on = FALSE
    /\ sent = <<>>
    /\ handled = <<>>
    /\ hist_probe = ProbeIdle
    /\ schema_probe = SchemaProbeIdle

SpecCount == InitCount /\ [][NextPages]_vars

\* C13: total_pages() is 1 for total_count = 0 and ceil(total_count / 50) for
\* every total_count > 0 (1..50 -> 1, 51..100 -> 2, 120 -> 3); it is never
\* less than 1.
C13_TotalPages ==
    IsTableView(app.current_view) =>
        LET c == app.current_view.state.total_count
            n == total_pages(app.current_view.state)
        IN /\ n >= 1
           /\ c = 0 => n = 1
           /\ c > 0 => (n * 50 >= c /\ (n - 1) * 50 < c)
           /\ c \in 1..50 => n = 1
           /\ c \in 51..100 => n = 2
           /\ c = 120 => n = 3

\* C13 witness: a table of 51 rows was turned to its second and last page.
C13_Witness ==
    /\ IsTableView(app.current_view)
    /\ app.current_view.state.total_count = 51
    /\ app.current_view.state.page = 1
    /\ total_pages(app.current_view.state) = 2

\* ------------------------------------------------------------ the empty database
\* A table node is selected and opened; the schema poller keeps refreshing the
\* structure while the user activates nodes of the tree.
NextEmpty ==
    \/ DispatchKey
    \/ DispatchApp
    \/ \E k \in {"Enter", "Right"} : SendKey(k)
    \/ SchemaRefreshTick

SpecEmpty == InitTable /\ [][NextEmpty]_vars

\* No structure is loaded yet, or the loaded structure has no schemas.
NothingToOpen ==
    \/ app.db_structure = None
    \/ Unwrap(app.db_structure).schemas = <<>>

\* The dispatcher is about to hand an activate or expand key to the tree.
ActivateKeyAtHead ==
    /\ app.running /\ ~dropped /\ queue # <<>>
    /\ Head(queue).kind = "Key"
    /\ Head(queue).key \in {"Enter", " ", "Right", "l"}
    /\ app.focused_pane = "Sidebar"

\* The part of C14 about what is shown for a structure without schemas.
EmptyStructureShowsRoot ==
    (IsSome(app.db_structure) /\ Unwrap(app.db_structure).schemas = <<>>)
        => (get_visible_tree_paths(app) = <<RootPath>> /\ app.tables = <<>>)

\* The part of C14 about activating while there is nothing to open.
ActivateOnEmptyIsNoOp ==
    [][(NothingToOpen /\ ActivateKeyAtHead /\ DispatchKey)
          => /\ app'.current_view = app.current_view
             /\ tasks' = tasks
             /\ app'.focused_pane = app.focused_pane]_vars

\* C14: when the loaded structure has no schemas the visible tree paths are
\* exactly [Root] and the table list is empty; in that state, and before the
\* first structure load, enter/activate and expand on the tree never create a
\* table view, never issue a page fetch and never change the focused pane.
C14_EmptyDatabase == []EmptyStructureShowsRoot /\ ActivateOnEmptyIsNoOp

\* ------------------------------------------------------------ applying a page
\* The dispatcher is about to handle a successful page result.
PageResultAtHead ==
    /\ app.running /\ ~dropped /\ queue # <<>>
    /\ Head(queue).kind = "App" /\ Head(queue).app = "TableDataLoaded"
    /\ Head(queue).result.ok

\* The result at the head was fetched for the (table, page) the view shows.
ResultMatchesView ==
    /\ IsTableView(app.current_view)
    /\ app.current_view.state.table_name = Head(queue).result.table_name
    /\ app.current_view.state.page = Head(queue).result.page

\* C15: a successful page result is applied if and only if the current view is
\* a table view whose (table_name, page) equals the result's; applied, it
\* replaces columns, rows and total_count by the result's, sets loading to
\* false and clears error, leaving table_name and page as they were; not
\* applied, it leaves the view as it was.
C15_PageResultApplied ==
    [][(PageResultAtHead /\ DispatchApp) =>
          IF ResultMatchesView
          THEN /\ IsTableView(app'.current_view)
               /\ app'.current_view.state.columns = Head(queue).result.columns
               /\ app'.current_view.state.rows = Head(queue).result.rows
               /\ app'.current_view.state.total_count = Head(queue).result.total_count
               /\ app'.current_view.state.loading = FALSE
               /\ app'.current_view.state.error = None
               /\ app'.current_view.state.table_name = app.current_view.state.table_name
               /\ app'.current_view.state.page = app.current_view.state.page
          ELSE app'.current_view = app.current_view
      ]_vars

\* C15 witness: the result of page 1 was applied to the view turned to page 1.
C15_Witness ==
    /\ IsTableView(app.current_view)
    /\ LET st == app.current_view.state
       IN /\ st.page = 1 /\ ~st.loading /\ st.error = None
          /\ st.total_count = 70
          /\ st.rows = fetch_table_page(st.table_name, 1, 70).rows

\* ------------------------------------------------------------ opening a table
\* As NextTable, with the focus key: the tree is reached again while a table
\* view is shown.
NextOpen ==
    \/ DispatchKey
    \/ DispatchApp
    \/ \E k \in {"Enter", "Right", "Tab"} : SendKey(k)
    \/ FetchPageDone

SpecOpen == InitTable /\ [][NextOpen]_vars

\* The dispatcher is about to hand an activate key to the tree while an opened
\* Table node is selected.
OpenTableKeyAtHead ==
    /\ app.running /\ ~dropped /\ queue # <<>>
    /\ Head(queue).kind = "Key"
    /\ Head(queue).key \in {"Enter", " ", "Right", "l"}
    /\ app.focused_pane = "Sidebar"
    /\ app.tree_state.selected # <<>>
    /\ LastNode(app.tree_state.selected)[1] = "Table"
    /\ app.tree_state.selected \in app.tree_state.opened

\* The name the view of the selected table goes by.
SelectedTableName ==
    LET node == LastNode(app.tree_state.selected)
    IN IF node[2] = "public" THEN node[3] ELSE node[2] \o "." \o node[3]

\* C16: activating an already-open Table node replaces the current view by a
\* fresh TableViewState of that table (page 0, no columns, no rows, total_count
\* 0, selected_row 0, scroll_offset 0, loading, no error), hides query results
\* and issues exactly one fetch for (table, page 0), whatever view was current
\* before, a view of the same table included.
C16_OpenTable ==
    [][(OpenTableKeyAtHead /\ DispatchKey) =>
          /\ app'.current_view =
                TableView([table_name |-> SelectedTableName,
                           columns |-> <<>>,
                           rows |-> <<>>,
                           total_count |-> 0,
                           page |-> 0,
                           selected_row |-> 0,
                           scroll_offset |-> 0,
                           loading |-> TRUE,
                           error |-> None])
          /\ app'.show_query_results = FALSE
          /\ tasks' = tasks (+) SetToBag({FetchTask(SelectedTableName, 0)})
      ]_vars

\* C16 witness: t1 was reopened from the tree while its view was on page 1 and
\* the fetch of that page was still in flight.
C16_Witness ==
    /\ IsTableView(app.current_view)
    /\ LET st == app.current_view.state
       IN /\ st.table_name = "t1" /\ st.page = 0 /\ st.loading
          /\ st.rows = <<>> /\ st.total_count = 0
    /\ FetchTask("t1", 1) \in BagToSet(tasks)
    /\ FetchTask("t1", 0) \in BagToSet(tasks)

\* ------------------------------------------------------------ submitting a query
\* The dispatcher is about to hand an execute key to the editor while no query
\* is executing.
SubmitAtHead ==
    /\ app.running /\ ~dropped /\ queue # <<>>
    /\ Head(queue).kind = "Key" /\ is_execute_key_combo(Head(queue).key)
    /\ app.focused_pane = "Editor"
    /\ ~app.query_executing

\* The text a submission sends.
SubmittedText == Trim(EditorText(app.sql_editor))

\* What a submission of a text that is not blank does to the history and to the
\* browse state.
SubmitRecords ==
    /\ app'.query_history =
          IF app.query_history # <<>> /\ Head(app.query_history) = SubmittedText
          THEN app.query_history
          ELSE <<SubmittedText>> \o app.query_history
    /\ app'.history_index = None
    /\ app'.saved_editor_content = None

\* The submission starts exactly one execution of the text.
SubmitStarts ==
    /\ app'.query_executing
    /\ app'.query_start_time # None
    /\ tasks' = tasks (+) SetToBag({[type |-> "execute_sql_query",
                                     query |-> SubmittedText]})

\* The submission starts nothing.
SubmitStartsNothing ==
    /\ ~app'.query_executing
    /\ app'.query_start_time = app.query_start_time
    /\ tasks' = tasks

\* C17 as stated: a submission of a text that is not blank records it, resets
\* the browse state, raises query_executing with a start time and issues
\* exactly one execution; a submission of a blank text changes nothing and
\* issues nothing.
C17_SubmitAlwaysStarts ==
    [][(SubmitAtHead /\ DispatchKey) =>
          IF SubmittedText # <<>>
          THEN SubmitRecords /\ SubmitStarts
          ELSE app' = app /\ tasks' = tasks
      ]_vars

\* C17, amended: the execution is started, and query_executing raised, only
\* when the connection is established; without one the text is still recorded
\* and the browse state reset, but nothing is started.
C17_SubmitStartsWhenConnected ==
    [][(SubmitAtHead /\ DispatchKey) =>
          IF SubmittedText # <<>>
          THEN /\ SubmitRecords
               /\ IF IsConnected(app) THEN SubmitStarts ELSE SubmitStartsNothing
          ELSE app' = app /\ tasks' = tasks
      ]_vars

\* C17 witness: a query was submitted and recorded without a connection, and
\* nothing is executing.
C17_Witness ==
    /\ ~IsConnected(app)
    /\ app.query_history # <<>>
    /\ ~app.query_executing
    /\ Running("execute_sql_query") = {}

\* ------------------------------------------------------------ query completion
\* The dispatcher is about to handle the result of a query.
QueryResultAtHead ==
    /\ app.running /\ ~dropped /\ queue # <<>>
    /\ Head(queue).kind = "App" /\ Head(queue).app = "QueryExecuted"

\* C18: handling QueryExecuted, a success replaces query_result by the new
\* columns, rows, row_count, duration and explain flag with selected_row 0,
\* scroll_offset 0 and no error, sets last_query_ms and adds 1 to
\* queries_this_second and row_count to rows_this_second; a failure replaces
\* query_result by an error-only state and leaves last_query_ms and the
\* per-second accumulators alone.  Either way queries_run grows by exactly 1
\* and query_executing becomes false; queries_run, 0 at the start, changes at
\* no other step, so it counts the QueryExecuted events handled.
C18_QueryExecuted ==
    [][/\ (QueryResultAtHead /\ DispatchApp) =>
            LET r == Head(queue).result
            IN /\ app'.stats.queries_run = app.stats.queries_run + 1
               /\ ~app'.query_executing
               /\ IF r.ok
                  THEN /\ app'.query_result =
                             Some([columns |-> r.columns,
                                   rows |-> r.rows,
                                   row_count |-> r.row_count,
                                   duration_ms |-> r.duration_ms,
                                   is_explain |-> r.is_explain,
                                   selected_row |-> 0,
                                   scroll_offset |-> 0,
                                   error |-> None])
                       /\ app'.stats.last_query_ms = Some(r.duration_ms)
                       /\ app'.stats.queries_this_second =
                             app.stats.queries_this_second + 1
                       /\ app'.stats.rows_this_second =
                             app.stats.rows_this_second + r.row_count
                  ELSE /\ IsSome(app'.query_result)
                       /\ Unwrap(app'.query_result).columns = <<>>
                       /\ Unwrap(app'.query_result).rows = <<>>
                       /\ Unwrap(app'.query_result).error = Some(r.error)
                       /\ app'.stats.last_query_ms = app.stats.last_query_ms
                       /\ app'.stats.queries_this_second = app.stats.queries_this_second
                       /\ app'.stats.rows_this_second = app.stats.rows_this_second
       /\ (app = AppNew) => app.stats.queries_run = 0
       /\ (app'.stats.queries_run # app.stats.queries_run)
            => (QueryResultAtHead /\ DispatchApp)
      ]_vars

\* C18 witness: a query succeeded and the next one failed: both are counted,
\* the failure is shown, and the statistics of the success are kept.
C18_Witness ==
    /\ app.stats.queries_run = 2
    /\ IsSome(app.query_result) /\ Unwrap(app.query_result).error # None
    /\ app.stats.last_query_ms # None
    /\ app.stats.queries_this_second = 1
    /\ ~app.query_executing

\* ------------------------------------------------------------ history browsing
\* The dispatcher is about to hand Up to the editor with the cursor on the
\* first line and a history to browse: a browse-up.
BrowseUpAtHead ==
    /\ app.running /\ ~dropped /\ queue # <<>>
    /\ Head(queue).kind = "Key" /\ Head(queue).key = "Up"
    /\ app.focused_pane = "Editor"
    /\ app.sql_editor.row = 0
    /\ app.query_history # <<>>

\* The dispatcher is about to hand Down to the editor with the cursor on the
\* last line while browsing: a browse-down.
BrowseDownAtHead ==
    /\ app.running /\ ~dropped /\ queue # <<>>
    /\ Head(queue).kind = "Key" /\ Head(queue).key = "Down"
    /\ app.focused_pane = "Editor"
    /\ app.sql_editor.row >= SatSub(Len(app.sql_editor.lines), 1)
    /\ IsSome(app.history_index)

\* history_index is None or an index of the history, and a snapshot is held
\* exactly while browsing.
BrowseStateOk ==
    /\ app.history_index = None \/ Unwrap(app.history_index) < Len(app.query_history)
    /\ IsSome(app.saved_editor_content) <=> IsSome(app.history_index)

\* Browse-up: from the non-browsing state the editor text is saved and the
\* index is 0; further up the index is min(i + 1, len - 1).
BrowseUpSteps ==
    [][(BrowseUpAtHead /\ DispatchKey) =>
          IF app.history_index = None
          THEN /\ app'.saved_editor_content = Some(EditorText(app.sql_editor))
               /\ app'.history_index = Some(0)
          ELSE /\ app'.history_index =
                     Some(Min(Unwrap(app.history_index) + 1, Len(app.query_history) - 1))
               /\ app'.saved_editor_content = app.saved_editor_content
      ]_vars

\* Browse-down above index 0 goes to i - 1; at index 0 it leaves browsing.
BrowseDownSteps ==
    [][(BrowseDownAtHead /\ DispatchKey) =>
          IF Unwrap(app.history_index) > 0
          THEN /\ app'.history_index = Some(Unwrap(app.history_index) - 1)
               /\ app'.saved_editor_content = app.saved_editor_content
          ELSE /\ app'.history_index = None
               /\ app'.saved_editor_content = None
      ]_vars

\* Browse-down at index 0 puts the snapshot back into the editor.
BrowseDownRestores ==
    [][(BrowseDownAtHead /\ DispatchKey /\ Unwrap(app.history_index) = 0) =>
          EditorText(app'.sql_editor) = Unwrap(app.saved_editor_content)
      ]_vars

\* C19: browse-up from the non-browsing state saves the editor text as the
\* snapshot and sets the index to 0; each further browse-up sets it to
\* min(i + 1, len - 1); browse-down from i > 0 sets it to i - 1; browse-down
\* from 0 restores the snapshot and exits browsing.  In every reachable state
\* history_index is None or less than the history length, and a snapshot is
\* held exactly when history_index is not None.
C19_HistoryBrowsing ==
    []BrowseStateOk /\ BrowseUpSteps /\ BrowseDownSteps /\ BrowseDownRestores

\* ------------------------------------------------------------ the history ring
\* A history of n submissions, most recent first: "a" and "b" in turn (from
\* "a" or from "b" according to k), the oldest being "ba".
RingOf(n, k) ==
    [i \in 1..n |-> IF i = n THEN <<"b", "a">>
                    ELSE IF (i + k) % 2 = 0 THEN <<"a">> ELSE <<"b">>]

\* Texts found in the editor when the execute key arrives: blank, blank but
\* for white space, plain, to be trimmed on either side, and of two lines.
RingTexts ==
    {<< <<>> >>, << <<" ">> >>, << <<"a">> >>, << <<"b">> >>, << <<" ", "a">> >>,
     << <<"b">>, <<>> >>, << <<"a">>, <<"b">> >>}

\* The user in the editor, before the connection is made, after n submissions
\* and with a text typed; the execute key is in the channel.
InitRing ==
    /\ \E n \in 0..MAX_HISTORY, k \in {0, 1}, lines \in RingTexts :
         app = [handle_key_events(AppNew, ":").app EXCEPT
                  !.query_history = RingOf(n, k),
                  !.sql_editor = TextAreaNew(lines)]
    /\ queue = <<KeyEvent("F5")>>
    /\ tasks = SetToBag({[type |-> "connect_to_database"]})
    /\ schema_task = "none"
    /\ stats_task = "none"
    /\ stats_pc = StatsPcStart
    /\ dropped = FALSE
    /\ trace_on = FALSE
    /\ sent = <<>>
    /\ handled = <<>>
    /\ hist_probe = ProbeIdle
    /\ schema_probe = SchemaProbeIdle

SpecRing == InitRing /\ [][NextHistory]_vars

\* At most 20 entries, each non-empty and trimmed, no two neighbours equal.
RingOk ==
    LET h == app.query_history
    IN /\ Len(h) <= 20
       /\ \A i \in 1..Len(h) : h[i] # <<>> /\ Trim(h[i]) = h[i]
       /\ \A i \in 1..Len(h) - 1 : h[i] # h[i + 1]

\* The history changes only by a submission, which puts the submitted text in
\* front of the entries held, the oldest of 20 being dropped.
RingPushesFront ==
    [][(app'.query_history # app.query_history) =>
          /\ SubmitAtHead /\ DispatchKey
          /\ app'.query_history =
                <<SubmittedText>> \o
                (IF Len(app.query_history) = 20
                 THEN SubSeq(app.query_history, 1, 19)
                 ELSE app.query_history)
      ]_vars

\* C20: after any sequence of submissions the history holds at most 20
\* entries, most recent first; no two adjacent entries are equal; every entry
\* is non-empty trimmed text; and when a 21st entry is recorded the oldest
\* entry, the back, is the one evicted.
C20_HistoryRing == []RingOk /\ RingPushesFront

\* C20 witness: a text of two lines was recorded on top of 20 entries, and the
\* oldest of them, "ba", is gone.
C20_Witness ==
    /\ Len(app.query_history) = 20
    /\ app.query_history[1] = <<"a", NL, "b">>
    /\ \A i \in 1..20 : app.query_history[i] # <<"b", "a">>

\* ------------------------------------------------------------ the top-level view
\* The session from its start: the connection attempt, the first structure
\* fetch, and the user opening tables from the tree and going back.
NextView ==
    \/ DispatchKey
    \/ DispatchApp
    \/ \E k \in {"Right", "b", "Tab"} : SendKey(k)
    \/ ConnectDone
    \/ FetchStructureDone
    \/ FetchPageDone

SpecView == Init /\ [][NextView]_vars

\* The dispatcher is about to handle the result of the connection attempt.
ConnectionResultAtHead ==
    /\ app.running /\ ~dropped /\ queue # <<>>
    /\ Head(queue).kind = "App" /\ Head(queue).app = "ConnectionResult"

\* The dispatcher is about to hand the back key to a table view.
BackKeyAtHead ==
    /\ app.running /\ ~dropped /\ queue # <<>>
    /\ Head(queue).kind = "Key" /\ Head(queue).key \in {"b", "Esc"}
    /\ app.focused_pane = "Results"
    /\ IsTableView(app.current_view)

\* The connection attempt is still running, or its result waits in the
\* channel, or it was handled: one of the three, so one result in all.
OneConnectionResult ==
    ~dropped =>
        BagCardinality([t \in Running("connect_to_database") |-> tasks[t]])
        + Cardinality({i \in 1..Len(queue) :
                         queue[i].kind = "App" /\ queue[i].app = "ConnectionResult"})
        + (IF app.connection.state = "Connecting" THEN 0 ELSE 1) = 1

\* The transitions of the view, and what each trigger does to it.
ViewTransitions ==
    [][/\ (app'.current_view.kind # app.current_view.kind) =>
             \/ /\ app.current_view = ConnectionStatus /\ app'.current_view = TableList
                /\ ConnectionResultAtHead /\ Head(queue).result.ok /\ DispatchApp
             \/ /\ app.current_view = TableList /\ IsTableView(app'.current_view)
                /\ OpenTableKeyAtHead /\ DispatchKey
             \/ /\ IsTableView(app.current_view) /\ app'.current_view = TableList
                /\ BackKeyAtHead /\ DispatchKey
       /\ (ConnectionResultAtHead /\ DispatchApp) =>
             /\ app.current_view = ConnectionStatus
             /\ app'.current_view =
                   IF Head(queue).result.ok THEN TableList ELSE ConnectionStatus
             /\ app'.connection.state =
                   IF Head(queue).result.ok THEN "Connected" ELSE "Failed"
       /\ (OpenTableKeyAtHead /\ DispatchKey) =>
             /\ app.current_view = TableList \/ IsTableView(app.current_view)
             /\ IsTableView(app'.current_view)
       /\ (BackKeyAtHead /\ DispatchKey) => app'.current_view = TableList
       /\ (app.connection.state = "Failed") =>
             /\ app'.connection = app.connection
             /\ app'.current_view = ConnectionStatus
      ]_vars

\* C21: the view starts at ConnectionStatus; its only transitions are
\* ConnectionStatus -> TableList on a successful ConnectionResult,
\* ConnectionStatus -> ConnectionStatus on a failed one, TableList or TableView
\* -> TableView on table activation and TableView -> TableList on back.  One
\* ConnectionResult is emitted in all, and once the connection is Failed
\* nothing changes the connection state or leaves the ConnectionStatus view.
C21_ViewStateMachine ==
    /\ [](app.connection.state = "Connecting" => app.current_view = ConnectionStatus)
    /\ []OneConnectionResult
    /\ ViewTransitions

\* C21 witness: a table was opened and left again with the back key while the
\* fetch of its first page was still in flight.
C21_Witness ==
    /\ app.current_view = TableList
    /\ app.connection.state = "Connected"
    /\ Running("fetch_table_page") # {}

\* ------------------------------------------------------------ moving in the tree
\* The session from its start: the connection attempt, the first structure
\* fetch, and the user moving in the tree by keys and by the mouse wheel,
\* opening, closing and activating its nodes.
NextNav ==
    \/ DispatchKey
    \/ DispatchApp
    \/ DispatchMouse
    \/ \E k \in {"Down", "Up", "Enter", "Right", "Left", "PageDown", "PageUp"} : SendKey(k)
    \/ \E m \in {"ScrollDown", "ScrollUp"} : SendMouse(m)
    \/ ConnectDone
    \/ FetchStructureDone

SpecNav == Init /\ [][NextNav]_vars

\* Where a path of the structure stands in it: the indices of its schema, of
\* its table in the schema and of its column in the table, 0 for the levels
\* below the path.  Pre-order is the lexicographic order of these.
PathRank(structure, p) ==
    LET S == structure.schemas
        s == IF Len(p) < 2 THEN 0 ELSE CHOOSE i \in 1..Len(S) : S[i].name = p[2][2]
        t == IF Len(p) < 3 THEN 0
             ELSE CHOOSE j \in 1..Len(S[s].tables) : S[s].tables[j].name = p[3][3]
        c == IF Len(p) < 4 THEN 0
             ELSE CHOOSE k \in 1..Len(S[s].tables[t].columns) :
                      S[s].tables[t].columns[k].name = p[4][4]
    IN <<s, t, c>>

RankBefore(r, q) ==
    \/ r[1] < q[1]
    \/ r[1] = q[1] /\ r[2] < q[2]
    \/ r[1] = q[1] /\ r[2] = q[2] /\ r[3] < q[3]

\* C22: the visible-path list is the pre-order walk, in structure order, of the
\* paths whose proper ancestors are all in the open set: Root once a structure
\* is loaded, a schema iff Root is open, a table iff Root and its schema are
\* open, a column iff Root, its schema and its table are open; it holds no
\* path twice.  Before the first structure it is empty.
C22_VisiblePaths ==
    LET vis == get_visible_tree_paths(app)
        opened == app.tree_state.opened
    IN IF app.db_structure = None THEN vis = <<>>
       ELSE LET structure == Unwrap(app.db_structure)
            IN /\ vis[1] = RootPath
               /\ {vis[i] : i \in 1..Len(vis)} =
                     {p \in AllPaths(structure) :
                        \A k \in 1..Len(p) - 1 : SubSeq(p, 1, k) \in opened}
               /\ \A i, j \in 1..Len(vis) :
                     i < j => RankBefore(PathRank(structure, vis[i]),
                                         PathRank(structure, vis[j]))

\* C22 witness: the table t1 is still marked open under the closed schema
\* public, and neither it nor its column is listed.
C22_Witness ==
    /\ IsSome(app.db_structure)
    /\ TablePath("public", "t1") \in app.tree_state.opened
    /\ SchemaPath("public") \notin app.tree_state.opened
    /\ get_visible_tree_paths(app) = <<RootPath, SchemaPath("public")>>

\* ------------------------------------------------------------ closing and re-opening
\* Whenever the open set shrinks, it loses the selected path and nothing else,
\* and the selection stays.
CloseRemovesOnePath ==
    [][(/\ app'.tree_state.opened # app.tree_state.opened
        /\ app'.tree_state.opened \subseteq app.tree_state.opened)
          => /\ DispatchKey
             /\ app.tree_state.selected \in app.tree_state.opened
             /\ app'.tree_state.opened =
                   app.tree_state.opened \ {app.tree_state.selected}
             /\ app'.tree_state.selected = app.tree_state.selected
      ]_vars

\* Closing the selected open node (collapse, or activate for Root and Schema
\* nodes) and then re-opening it (activate or expand) gives back the open set
\* and the visible list.
CloseThenReopen ==
    (app.tree_state.selected # <<>> /\ app.tree_state.selected \in app.tree_state.opened)
      => LET closings ==
                 {tree_collapse(app)}
                 \cup (IF LastNode(app.tree_state.selected)[1] \in {"Root", "Schema"}
                       THEN {handle_tree_enter(app).app} ELSE {})
         IN \A closed \in closings :
              /\ closed.tree_state.opened =
                    app.tree_state.opened \ {app.tree_state.selected}
              /\ \A reopened \in {handle_tree_enter(closed).app,
                                  tree_expand_or_open(closed).app} :
                    /\ reopened.tree_state.opened = app.tree_state.opened
                    /\ get_visible_tree_paths(reopened) = get_visible_tree_paths(app)

\* C23: closing a tree node removes only that node's path from the open set,
\* the open state of its descendants being kept, so that closing a node and
\* re-opening it, with no structure refresh in between, gives exactly the open
\* set and the visible-path list there were before the close.
C23_CloseReopen == []CloseThenReopen /\ CloseRemovesOnePath

\* C23 witness: Root was closed while the schema public and the table t1 below
\* it stay marked open.
C23_Witness ==
    /\ app.tree_state.selected = RootPath
    /\ RootPath \notin app.tree_state.opened
    /\ SchemaPath("public") \in app.tree_state.opened
    /\ TablePath("public", "t1") \in app.tree_state.opened

\* ------------------------------------------------------------ activating a node
\* The dispatcher is about to hand enter or space to the tree while a node is
\* selected.
ActivateAtHead ==
    /\ app.running /\ ~dropped /\ queue # <<>>
    /\ Head(queue).kind = "Key" /\ Head(queue).key \in {"Enter", " "}
    /\ app.focused_pane = "Sidebar"
    /\ app.tree_state.selected # <<>>

\* The line of the editor the cursor is on, with `text` inserted at the cursor.
LineWithInsert(ed, text) ==
    LET line == ed.lines[ed.row + 1]
    IN SubSeq(line, 1, ed.col) \o text \o SubSeq(line, ed.col + 1, Len(line))

\* C24: activate (enter/space) on the selected node: a closed Root, Schema or
\* Table node becomes open and nothing else changes; an open Table node opens
\* that table for viewing and the focus moves to the results pane; a Column
\* node has its name inserted into the editor and the focus moves to the
\* editor, the current view staying as it is.
C24_Activate ==
    [][(ActivateAtHead /\ DispatchKey) =>
          LET sel == app.tree_state.selected
              node == LastNode(sel)
          IN /\ (node[1] \in {"Root", "Schema", "Table"} /\ sel \notin app.tree_state.opened)
                  => /\ app' = [app EXCEPT !.tree_state.opened = @ \cup {sel}]
                     /\ tasks' = tasks
             /\ (node[1] = "Table" /\ sel \in app.tree_state.opened)
                  => /\ IsTableView(app'.current_view)
                     /\ app'.current_view.state.table_name = SelectedTableName
                     /\ app'.current_view.state.loading
                     /\ app'.focused_pane = "Results"
                     /\ tasks' = tasks (+) SetToBag({FetchTask(SelectedTableName, 0)})
             /\ (node[1] = "Column")
                  => /\ app'.sql_editor.lines =
                           [app.sql_editor.lines EXCEPT
                               ![app.sql_editor.row + 1] =
                                   LineWithInsert(app.sql_editor, <<node[4]>>)]
                     /\ app'.focused_pane = "Editor"
                     /\ app'.current_view = app.current_view
                     /\ app'.tree_state = app.tree_state
                     /\ tasks' = tasks
      ]_vars

\* C24 witness: the column c of t1 was activated: its name is in the editor,
\* the editor has the focus and the table list is still shown.
C24_Witness ==
    /\ app.tree_state.selected = ColumnPath("public", "t1", "c")
    /\ app.focused_pane = "Editor"
    /\ EditorText(app.sql_editor) = <<"c">>
    /\ app.current_view = TableList

\* ------------------------------------------------------------ moving the selection
\* The dispatcher is about to hand a key or a wheel turn that moves the
\* selection to the tree.
MoveAtHead ==
    /\ app.running /\ ~dropped /\ queue # <<>>
    /\ app.focused_pane = "Sidebar"
    /\ \/ Head(queue).kind = "Key"
          /\ Head(queue).key \in {"Down", "j", "Up", "k", "PageDown", "PageUp"}
       \/ Head(queue).kind = "Mouse"
          /\ Head(queue).mouse \in {"ScrollDown", "ScrollUp"}

\* By how much the event at the head moves the selection.
MoveDelta ==
    LET e == Head(queue)
    IN IF e.kind = "Mouse" THEN (IF e.mouse = "ScrollDown" THEN 3 ELSE -3)
       ELSE CASE e.key \in {"Down", "j"} -> 1
              [] e.key \in {"Up", "k"} -> -1
              [] e.key = "PageDown" -> 15
              [] e.key = "PageUp" -> -15

\* C25: moving the tree selection by k (+-1 by keys, +-3 by the mouse wheel,
\* +-15 by the page keys) selects the visible path at clamp(i + k, 0, n - 1),
\* i being the index of the selection in the visible list of length n; it
\* never wraps, never selects a path outside the visible list, and changes
\* neither the open set nor the structure.
C25_MoveSelection ==
    [][(MoveAtHead /\ (DispatchKey \/ DispatchMouse)) =>
          LET vis == get_visible_tree_paths(app)
              n == Len(vis)
          IN /\ app'.tree_state.opened = app.tree_state.opened
             /\ app'.db_structure = app.db_structure
             /\ IF n = 0 THEN app'.tree_state.selected = app.tree_state.selected
                ELSE /\ \E i \in 1..n : vis[i] = app.tree_state.selected
                     /\ LET i == CHOOSE x \in 1..n : vis[x] = app.tree_state.selected
                            t == i + MoveDelta
                            j == IF t < 1 THEN 1 ELSE IF t > n THEN n ELSE t
                        IN app'.tree_state.selected = vis[j]
      ]_vars

\* C25 witness: with all five paths of the structure visible, the selection is
\* on the last of them.
C25_Witness ==
    /\ Len(get_visible_tree_paths(app)) = 5
    /\ app.tree_state.selected = get_visible_tree_paths(app)[5]
    /\ app.focused_pane = "Sidebar"

\* ------------------------------------------------------------ C26
\* The stats events waiting in the channel, by kind.
StatsKindsIn(q) ==
    LET IsStats(e) == e.kind = "App" /\ e.app \in {"StatsUpdated", "SparklineTick"}
        s == SelectSeq(q, IsStats)
    IN [i \in 1..Len(s) |-> s[i].app]

\* The poller's events come in rounds of six: a StatsUpdated, then five
\* SparklineTicks.
CadenceOk ==
    \A i \in 1..Len(stats_pc.emitted) :
        stats_pc.emitted[i] = (IF i % 6 = 1 THEN "StatsUpdated" ELSE "SparklineTick")

\* A step puts a stats event into the channel exactly when the poller emits
\* one, one event a step, and only while the poller runs and the channel is
\* open.
EmissionsAreSteps ==
    [][/\ (dropped' \/ Len(StatsKindsIn(queue')) <= Len(StatsKindsIn(queue)))
          => stats_pc'.emitted = stats_pc.emitted
       /\ (~dropped' /\ Len(StatsKindsIn(queue')) > Len(StatsKindsIn(queue)))
          => /\ stats_task = "running" /\ ~dropped /\ ~pool_is_closed
             /\ queue' = Append(queue, queue'[Len(queue')])
             /\ stats_pc'.emitted = Append(stats_pc.emitted, queue'[Len(queue')].app)]_vars

\* A poller that finds the channel closed ends in that very step, and a poller
\* that has ended stays ended.
EndsWhenClosed ==
    [][/\ (stats_task = "aborting" /\ stats_task' # stats_task)
          => stats_task' \in {"done", "aborted"}
       /\ (stats_task = "aborting" /\ stats_pc.at = "tick" /\ stats_task' # stats_task)
          => stats_task' = "done"
       /\ stats_task \in {"done", "aborted"}
          => stats_task' = stats_task /\ stats_pc' = stats_pc]_vars

\* C26: the stats poller emits one StatsUpdated before any SparklineTick, then
\* one SparklineTick per period and a StatsUpdated after every fifth
\* SparklineTick and never after fewer; it emits only while it runs and the
\* channel and the pool are open; once the channel is closed it ends at its
\* next step, emitting nothing, and it never emits after it has ended.
C26_StatsCadence ==
    /\ []CadenceOk
    /\ EmissionsAreSteps
    /\ EndsWhenClosed
    /\ (dropped ~> stats_task \notin {"running", "aborting"})

\* The poller has gone through two full rounds and begun a third, then found
\* the channel closed and ended.
C26_Witness ==
    /\ dropped /\ stats_task = "done"
    /\ Len(stats_pc.emitted) >= 13

\* ------------------------------------------------------------ C27
\* The step is a dispatch: the oldest event leaves the channel.
Dispatched == ~dropped' /\ queue # <<>> /\ queue' = Tail(queue)

\* One-shot structure fetches in flight.
FetchesInFlight(bag) ==
    LET t == [type |-> "fetch_database_structure"]
    IN IF t \in BagToSet(bag) THEN CopiesIn(t, bag) ELSE 0

\* SchemaLoaded events of the schema poller waiting in the channel.
PolledStructuresIn(q) ==
    Cardinality({i \in 1..Len(q) :
                   /\ q[i].kind = "App" /\ q[i].app = "SchemaLoaded"
                   /\ q[i].from.task = "schema_refresh_task"})

\* Handling the event at the head of the channel would start a schema poller.
WouldStartSchemaPoller ==
    /\ app.running /\ ~dropped /\ queue # <<>>
    /\ Spawns(handle_event(app, Head(queue)).spawn, "schema_refresh_task")

\* Handling a successful ConnectionResult issues one structure fetch and starts
\* no schema poller.
ConnectFetchesOnce ==
    [][(ConnectionResultAtHead /\ Head(queue).result.ok /\ Dispatched)
         => /\ FetchesInFlight(tasks) = 0 /\ FetchesInFlight(tasks') = 1
            /\ schema_task = "none" /\ schema_task' = "none"]_vars

\* A schema poller starts only by handling a SchemaLoaded while none was ever
\* started, and handling one then starts it.
OneSchemaPoller ==
    /\ [](WouldStartSchemaPoller
            => /\ SchemaLoadedAtHead
               /\ schema_task = "none" /\ app.schema_handle = None)
    /\ []((SchemaLoadedAtHead /\ app.running /\ ~dropped /\ app.schema_handle = None)
            => WouldStartSchemaPoller)
    /\ [](schema_task # "none" <=> IsSome(app.schema_handle))
    /\ [][schema_task' # schema_task
            => \/ schema_task = "none" /\ schema_task' = "running"
                  /\ SchemaLoadedAtHead /\ Dispatched
               \/ schema_task = "running" /\ schema_task' \in {"aborting", "aborted"}
                  /\ dropped'
               \/ schema_task = "aborting" /\ schema_task' = "done"]_vars

\* The poller sends one SchemaLoaded a turn, only while it runs and the channel
\* is open; with the channel closed its turn ends it and sends nothing.
SchemaPollerTurns ==
    [][/\ (~dropped' /\ PolledStructuresIn(queue') > PolledStructuresIn(queue))
          => /\ schema_task = "running" /\ schema_task' = "running"
             /\ ~dropped /\ ~pool_is_closed
             /\ queue' = Append(queue, queue'[Len(queue')])
       /\ (schema_task = "aborting" /\ schema_task' # schema_task)
          => schema_task' = "done" /\ queue' = queue]_vars

\* C27: handling a successful connection issues exactly one structure fetch
\* outside the poller; the schema poller is started by the first SchemaLoaded
\* that is handled and never again, whatever SchemaLoaded events follow from
\* the poller or from manual refreshes; the poller sends one SchemaLoaded a
\* turn and ends at the turn that finds the channel or the pool closed.
C27_SchemaRefresh ==
    /\ ConnectFetchesOnce
    /\ OneSchemaPoller
    /\ SchemaPollerTurns

\* The poller runs, its own SchemaLoaded is about to be handled, and a manual
\* refresh is fetching the structure as well.
C27_Witness ==
    /\ schema_task = "running" /\ app.running /\ ~dropped
    /\ SchemaLoadedAtHead /\ Head(queue).from.task = "schema_refresh_task"
    /\ FetchesInFlight(tasks) = 1

\* ------------------------------------------------------------ C28
\* The step sends an event: it is appended to the open channel.
Sends == ~dropped' /\ Len(queue') = Len(queue) + 1 /\ queue' = Append(queue, queue'[Len(queue')])

\* The update of a stats fetch in which a query failed.
FailedStats(update) == update.pg_version = "Unknown" \/ update.total_rows = 0

\* A poller that sends the result of a failed fetch sends the defaults and
\* runs on.
FailedFetchIsSent ==
    [][Sends =>
         LET e == queue'[Len(queue')]
         IN /\ (e.kind = "App" /\ e.app = "SchemaLoaded"
                 /\ e.from = [task |-> "schema_refresh_task", failed |-> TRUE])
               => e.structure = DefaultStructure /\ schema_task' = "running"
            /\ (e.kind = "App" /\ e.app = "StatsUpdated" /\ FailedStats(e.update))
               => stats_task' = "running" /\ stats_pc'.at = "tick"]_vars

\* A running poller stops running only with the channel or the pool closed.
PollersEndOnlyWhenClosed ==
    [][/\ (schema_task = "running" /\ schema_task' # "running")
          => dropped' \/ pool_is_closed
       /\ (stats_task = "running" /\ stats_task' # "running")
          => dropped' \/ pool_is_closed]_vars

\* C28: a failed fetch inside a poller never ends the poller: the schema poller
\* sends the default structure of the failed fetch and the stats poller sends
\* the default update, each keeps running, and a poller stops only once the
\* channel or the pool is closed.
C28_FailedFetchKeepsPolling ==
    /\ FailedFetchIsSent
    /\ PollersEndOnlyWhenClosed

\* A failed refresh of the schema poller was applied and its next one failed
\* as well and is waiting; the stats poller has sent a round after a fetch whose
\* version query failed; both run.
C28_Witness ==
    /\ schema_task = "running" /\ stats_task = "running" /\ ~dropped
    /\ app.db_structure = Some(DefaultStructure)
    /\ FailedRefreshAtHead
    /\ app.stats.pg_version = "Unknown"
    /\ TicksEmitted >= 5 /\ stats_pc.at = "tick"
    /\ stats_pc.emitted[Len(stats_pc.emitted)] = "StatsUpdated"

\* ------------------------------------------------------------ C29
\* No poller is left running without an abort requested.
NoPollerRunning == schema_task # "running" /\ stats_task # "running"

\* A poller that has ended, or was never started.
Ended(task) == task \in {"none", "done", "aborted"}

\* C29: once the App is dropped, an abort has been requested of every poller
\* that was started, the stats poller and the schema poller; no poller sends an
\* event from then on, and every poller ends.
C29_DropAbortsPollers ==
    /\ [](dropped => NoPollerRunning)
    /\ [][dropped => /\ queue' = <<>> /\ sent' = sent
                      /\ stats_pc'.emitted = stats_pc.emitted]_vars
    /\ (dropped ~> (Ended(schema_task) /\ Ended(stats_task)))

\* The App was dropped while both pollers were live; one was aborted at its
\* await, the other ended at the step that found the channel closed.
C29_Witness ==
    /\ dropped
    /\ schema_task = "done" /\ stats_task = "aborted"
    /\ TicksEmitted >= 1

\* ------------------------------------------------------------ row navigation
\* Row counts of the table shown: shorter than the viewport, as long, longer,
\* and a full page.
RowListCounts == {1, 2, 14, 15, 16, 31, 50}

\* The table view of t1 with page 0 applied, for each of the row counts.
InitRows ==
    /\ \E c \in RowListCounts :
         app = on_TableDataLoaded(handle_tree_enter(AppAtTable).app,
                                  fetch_table_page("t1", 0, c)).app
    /\ queue = <<>>
    /\ tasks = EmptyBag
    /\ schema_task = "running"
    /\ stats_task = "running"
    /\ stats_pc = StatsPcStart
    /\ dropped = FALSE
    /\ trace_on = TRUE
    /\ sent = <<>>
    /\ handled = <<>>
    /\ hist_probe = ProbeIdle
    /\ schema_probe = SchemaProbeIdle

RowKeys == {"Up", "Down", "PageUp", "PageDown", "Home", "End"}

NextRows ==
    \/ DispatchKey
    \/ \E k \in RowKeys : SendKey(k)

SpecRows == InitRows /\ [][NextRows]_vars

\* The dispatcher is about to hand a row key to a table view that has rows.
RowKeyAtHead(codes) ==
    /\ app.running /\ ~dropped /\ queue # <<>>
    /\ Head(queue).kind = "Key" /\ Head(queue).key \in codes
    /\ app.focused_pane = "Results" /\ ~app.show_query_results
    /\ IsTableView(app.current_view) /\ app.current_view.state.rows # <<>>

\* C30: in a list of len rows with viewport H = DEFAULT_VISIBLE_ROWS, down on
\* the last row selects row 0 with scroll_offset 0 and up on row 0 selects the
\* last row with scroll_offset max(len - H, 0), and elsewhere they move by one
\* row; page-up, page-down, home and end do not wrap: they select
\* max(S - H, 0), min(S + H, len - 1), 0 and len - 1; after each of them the
\* selection is a row of the list and scroll_offset <= selected_row <
\* scroll_offset + H.
C30_RowNavigation ==
    [][(RowKeyAtHead(RowKeys) /\ Dispatched) =>
         LET code == Head(queue).key
             len == Len(app.current_view.state.rows)
             S == app.current_view.state.selected_row
             st == app'.current_view.state
         IN /\ IsTableView(app'.current_view) /\ st.rows = app.current_view.state.rows
            /\ st.selected_row \in 0..(len - 1)
            /\ ScrollWindowOk(st)
            /\ code = "Down" =>
                  IF S = len - 1 THEN st.selected_row = 0 /\ st.scroll_offset = 0
                  ELSE st.selected_row = S + 1
            /\ code = "Up" =>
                  IF S = 0
                  THEN /\ st.selected_row = len - 1
                       /\ st.scroll_offset = (IF len > DEFAULT_VISIBLE_ROWS
                                               THEN len - DEFAULT_VISIBLE_ROWS ELSE 0)
                  ELSE st.selected_row = S - 1
            /\ code = "PageUp" =>
                  st.selected_row = (IF S > DEFAULT_VISIBLE_ROWS
                                     THEN S - DEFAULT_VISIBLE_ROWS ELSE 0)
            /\ code = "PageDown" =>
                  st.selected_row = (IF S + DEFAULT_VISIBLE_ROWS < len - 1
                                     THEN S + DEFAULT_VISIBLE_ROWS ELSE len - 1)
            /\ code = "Home" => st.selected_row = 0
            /\ code = "End" => st.selected_row = len - 1]_vars

\* Up on row 0 of 31 rows went round to row 30 with the window at 16, and
\* down then came back round to row 0.
C30_Witness ==
    /\ IsTableView(app.current_view) /\ Len(app.current_view.state.rows) = 31
    /\ handled = <<KeyEvent("Up"), KeyEvent("Down")>>
    /\ app.current_view.state.selected_row = 0
    /\ app.current_view.state.scroll_offset = 0

\* ------------------------------------------------------------ sparkline runs
\* SecondsBefore: seconds a long session has lasted when it is first observed.
SecondsBefore == 59

\* The pool size reported in the i-th second of such a session.
PriorPoolSize(i) == 1 + (i % 2)

\* StatsState after n seconds without a query.
RECURSIVE StatsAfter(_, _)
StatsAfter(stats, n) ==
    IF n = 0 THEN stats ELSE tick_second(StatsAfter(stats, n - 1), PriorPoolSize(n))

\* The user connected, went to the editor, typed a query and submitted it.
QuerySubmitted ==
    CHOOSE r \in {handle_editor_keys(a2, "F5") :
                   a2 \in {handle_editor_keys(a1, "a").app :
                   a1 \in {[a0 EXCEPT !.focused_pane = "Editor"] :
                   a0 \in {on_ConnectionResult(AppNew, [ok |-> TRUE, db_name |-> "db"]).app}}}} :
        TRUE

\* A session just connected, or one that has lasted SecondsBefore seconds; the
\* query is running and the first structure fetch is still out.
InitSpark ==
    /\ \E n \in {0, SecondsBefore} :
         /\ app = [QuerySubmitted.app EXCEPT !.stats = StatsAfter(@, n)]
         /\ stats_pc = IF n = 0 THEN StatsPcStart
                        ELSE [at |-> "tick", stats_counter |-> n % 5, emitted |-> <<>>]
    /\ queue = <<>>
    /\ tasks = SeqToBag(QuerySubmitted.spawn) (+) SetToBag({[type |-> "fetch_database_structure"]})
    /\ schema_task = "none"
    /\ stats_task = "running"
    /\ dropped = FALSE
    /\ trace_on = TRUE
    /\ sent = <<>>
    /\ handled = <<>>
    /\ hist_probe = ProbeIdle
    /\ schema_probe = SchemaProbeIdle

NextSpark ==
    \/ DispatchApp
    \/ QueryDone
    \/ StatsStep

SpecSpark == InitSpark /\ [][NextSpark]_vars

\* ------------------------------------------------------------ C31
\* The SparklineTick events handled since the run began, oldest first.
TicksHandled ==
    LET IsTick(e) == e.kind = "App" /\ e.app = "SparklineTick"
    IN SelectSeq(handled, IsTick)

\* Seconds the session had lasted when the run began.
PriorSeconds ==
    IF Len(app.stats.connections) < SecondsBefore THEN 0 ELSE SecondsBefore

\* Every pool size that has arrived with a SparklineTick, oldest first.
PoolSizesArrived ==
    [i \in 1..PriorSeconds |-> PriorPoolSize(i)]
    \o [i \in 1..Len(TicksHandled) |-> TicksHandled[i].pool_size]

\* The last m elements of seq.
LastOf(seq, m) == SubSeq(seq, Len(seq) - m + 1, Len(seq))

\* min(k, 60)
WindowOf(k) == IF k < SPARKLINE_MAX_POINTS THEN k ELSE SPARKLINE_MAX_POINTS

SeriesOk ==
    LET k == PriorSeconds + Len(TicksHandled)
        st == app.stats
    IN /\ Len(st.queries_per_sec) = WindowOf(k)
       /\ Len(st.rows_per_sec) = WindowOf(k)
       /\ Len(st.latency_ms) = WindowOf(k)
       /\ Len(st.connections) = WindowOf(k)
       /\ st.connections = LastOf(PoolSizesArrived, WindowOf(k))

TickAtHead ==
    /\ app.running /\ ~dropped /\ queue # <<>>
    /\ Head(queue).kind = "App" /\ Head(queue).app = "SparklineTick"

\* Handling a tick puts the second's sample at the end of each series, drops
\* the oldest sample of a full series, and resets the two accumulators.
TickShiftsSeries ==
    [][(TickAtHead /\ Dispatched) =>
         LET st == app.stats
             Shifted(series, sample) ==
                 LastOf(Append(series, sample), WindowOf(Len(series) + 1))
         IN /\ app'.stats.queries_per_sec = Shifted(st.queries_per_sec, st.queries_this_second)
            /\ app'.stats.rows_per_sec = Shifted(st.rows_per_sec, st.rows_this_second)
            /\ app'.stats.latency_ms =
                  Shifted(st.latency_ms,
                          IF IsSome(st.last_query_ms) THEN Unwrap(st.last_query_ms) ELSE 0)
            /\ app'.stats.connections = Shifted(st.connections, Head(queue).pool_size)
            /\ app'.stats.queries_this_second = 0
            /\ app'.stats.rows_this_second = 0]_vars

\* C31: after k SparklineTick events each of the four series has min(k, 60)
\* samples, the most recent ones in arrival order, the oldest evicted first;
\* the four series are equally long; and queries_this_second and
\* rows_this_second are 0 right after every tick.
C31_SparklineSeries ==
    /\ []SeriesOk
    /\ TickShiftsSeries

\* More than 60 seconds have passed: the series are full, the oldest samples
\* are gone, and the second in which the query ended is in the window.
C31_Witness ==
    /\ PriorSeconds + Len(TicksHandled) > SPARKLINE_MAX_POINTS
    /\ Len(app.stats.connections) = SPARKLINE_MAX_POINTS
    /\ \E i \in 1..Len(app.stats.queries_per_sec) :
         app.stats.queries_per_sec[i] = 1 /\ app.stats.rows_per_sec[i] = 20

\* ------------------------------------------------------------ focus runs
\* The application just started; or connected with a query running and the
\* editor focused; or showing table t1 with the results pane focused.
InitFocus ==
    /\ \/ app = AppNew /\ tasks = SetToBag({[type |-> "connect_to_database"]})
       \/ /\ app = QuerySubmitted.app
          /\ tasks = SeqToBag(QuerySubmitted.spawn)
                      (+) SetToBag({[type |-> "fetch_database_structure"]})
       \/ /\ app = handle_tree_enter(AppAtTable).app
          /\ tasks = SeqToBag(handle_tree_enter(AppAtTable).spawn)
    /\ queue = <<>>
    /\ schema_task = IF IsSome(app.schema_handle) THEN "running" ELSE "none"
    /\ stats_task = IF IsSome(app.stats_handle) THEN "running" ELSE "none"
    /\ stats_pc = StatsPcStart
    /\ dropped = FALSE
    /\ trace_on = TRUE
    /\ sent = <<>>
    /\ handled = <<>>
    /\ hist_probe = ProbeIdle
    /\ schema_probe = SchemaProbeIdle

FocusKeys == {"Esc", ":", "Tab", "Shift+Tab"}

NextFocus ==
    \/ DispatchKey
    \/ DispatchApp
    \/ \E k \in FocusKeys : SendKey(k)
    \/ ConnectDone
    \/ QueryDone

SpecFocus == InitFocus /\ [][NextFocus]_vars

\* ------------------------------------------------------------ C32
KeyAtHead(k) ==
    /\ app.running /\ ~dropped /\ queue # <<>>
    /\ Head(queue).kind = "Key" /\ Head(queue).key = k

\* C32: escape in the editor moves the focus to the results pane if query
\* results are shown or the view is a table view, and to the navigation pane
\* otherwise; the jump-to-editor key moves the focus to the editor from each
\* of the other panes; neither changes anything but the focused pane, and
\* neither starts a task.
C32_EditorFocusKeys ==
    [][/\ (KeyAtHead("Esc") /\ app.focused_pane = "Editor" /\ Dispatched)
          => /\ app' = [app EXCEPT !.focused_pane =
                           IF app.show_query_results \/ IsTableView(app.current_view)
                           THEN "Results" ELSE "Sidebar"]
             /\ tasks' = tasks
       /\ (KeyAtHead(":") /\ app.focused_pane # "Editor" /\ Dispatched)
          => /\ app' = [app EXCEPT !.focused_pane = "Editor"]
             /\ tasks' = tasks]_vars

\* The query result arrived and the user went round to the logs pane; the
\* jump key took the focus to the editor, and escape took it on to the results
\* pane.
C32_Witness ==
    /\ app.focused_pane = "Results" /\ app.show_query_results
    /\ ~IsTableView(app.current_view)
    /\ Len(handled) = 5
    /\ handled[2] = KeyEvent("Shift+Tab") /\ handled[3] = KeyEvent("Shift+Tab")
    /\ handled[4] = KeyEvent(":") /\ handled[5] = KeyEvent("Esc")

\* ------------------------------------------------------------ C33
\* The state App::run reaches from state a by handling the events of es in
\* order, stopping once the quit flag is set.
RECURSIVE RunOver(_, _)
RunOver(a, es) ==
    IF es = <<>> \/ ~a.running THEN a
    ELSE RunOver(handle_event(a, Head(es)).app, Tail(es))

\* es without its Tick events, and es with every Tick event doubled.
RECURSIVE WithoutTicks(_)
WithoutTicks(es) ==
    IF es = <<>> THEN <<>>
    ELSE IF Head(es).kind = "Tick" THEN WithoutTicks(Tail(es))
    ELSE <<Head(es)>> \o WithoutTicks(Tail(es))

RECURSIVE WithTicksDoubled(_)
WithTicksDoubled(es) ==
    IF es = <<>> THEN <<>>
    ELSE IF Head(es).kind = "Tick"
    THEN <<Head(es), Head(es)>> \o WithTicksDoubled(Tail(es))
    ELSE <<Head(es)>> \o WithTicksDoubled(Tail(es))

TickAtQueueHead ==
    /\ app.running /\ ~dropped /\ queue # <<>> /\ Head(queue).kind = "Tick"

\* C33: handling a Tick event changes nothing of the application state and
\* starts nothing; so the state reached by the events handled so far is also
\* the state reached by them with the Ticks left out, and with each Tick
\* doubled.
C33_TickIsNoOp ==
    /\ [][(TickAtQueueHead /\ Dispatched)
            => /\ app' = app /\ tasks' = tasks
               /\ schema_task' = schema_task /\ stats_task' = stats_task]_vars
    /\ [](/\ RunOver(AppNew, handled) = app
          /\ RunOver(AppNew, WithoutTicks(handled)) = app
          /\ RunOver(AppNew, WithTicksDoubled(handled)) = app)

\* Ticks were handled before and after a key and after the connection result.
C33_Witness ==
    /\ Len(handled) = 5
    /\ handled[1] = TickEvent /\ handled[2].kind = "Key"
    /\ handled[3] = TickEvent /\ handled[4].kind = "App" /\ handled[5] = TickEvent

\* ------------------------------------------------------------ quitting
QuitRunKeys == {"Ctrl+c", "Tab"}

NextQuit ==
    \/ DispatchKey
    \/ DispatchApp
    \/ AppDrop
    \/ \E k \in QuitRunKeys : SendKey(k)
    \/ ConnectDone
    \/ FetchStructureDone
    \/ QueryDone
    \/ FetchPageDone

\* run() takes the next event whenever one is waiting, and returns once the
\* quit flag is set.
SpecQuit ==
    InitFocus /\ [][NextQuit]_vars
    /\ WF_vars(DispatchKey \/ DispatchApp) /\ WF_vars(AppDrop)

\* A Ctrl+C key press is waiting in the channel.
QuitKeyQueued == \E i \in 1..Len(queue) : queue[i] = KeyEvent("Ctrl+c")

\* C34: in every state, whatever the connection state, the view, the focused
\* pane and whatever is executing or loading, handling Ctrl+C sets the quit
\* flag; once the flag is set no event is dispatched any more and the loop
\* ends; the flag is set by nothing but a quit key, so not by a failed
\* connection; and a Ctrl+C that was sent does end the loop.
C34_CanAlwaysQuit ==
    /\ [][(KeyAtHead("Ctrl+c") /\ Dispatched) => ~app'.running]_vars
    /\ [][~app.running => app' = app /\ handled' = handled]_vars
    /\ [][(app.running /\ ~app'.running) => KeyAtHead("Ctrl+c")]_vars
    /\ [](app.connection.state = "Failed" /\ ~dropped /\ app.running
            => app.current_view = ConnectionStatus)
    /\ (QuitKeyQueued ~> dropped)
    /\ (~app.running ~> dropped)

\* The user quit from the editor while the query was running, and from the
\* status screen of a failed connection.
C34_Witness ==
    /\ dropped /\ handled # <<>> /\ handled[Len(handled)] = KeyEvent("Ctrl+c")
    /\ \/ app.query_executing /\ app.focused_pane = "Editor" /\ Len(handled) = 2
       \/ app.connection.state = "Failed" /\ Len(handled) = 3
\* ------------------------------------------------------------ a failed page fetch
\* The dispatcher is about to handle the failure of the fetch for the
\* (table, page) the table view shows.
CurrentFetchFailedAtHead ==
    /\ app.running /\ ~dropped /\ queue # <<>>
    /\ Head(queue).kind = "App" /\ Head(queue).app = "TableDataLoaded"
    /\ ~Head(queue).result.ok
    /\ IsTableView(app.current_view)
    /\ FetchOf(Head(queue).result) =
         <<app.current_view.state.table_name, app.current_view.state.page>>

\* The table view shows an error.
ErrorShown == IsTableView(app.current_view) /\ app.current_view.state.error # None

\* The step replaces the table view by another view: a table is opened from the
\* tree, or the step leaves no table view.
ViewReplaced ==
    \/ ~IsTableView(app'.current_view)
    \/ OpenTableKeyAtHead /\ DispatchKey

\* C35: processing the failure of the fetch for the current (table, page) sets
\* loading to false and error to the message and leaves table_name, page, rows
\* and total_count as they were; as long as the view is not replaced, an error
\* it shows stays set (a page turn included) until a successful result for the
\* current (table, page) is applied, and that result clears it.
C35_FailedFetchShown ==
    /\ [][(CurrentFetchFailedAtHead /\ DispatchApp) =>
            /\ IsTableView(app'.current_view)
            /\ app'.current_view.state =
                 [app.current_view.state EXCEPT !.loading = FALSE,
                                                !.error = Some(Head(queue).result.error)]
            /\ app'.current_view.state.table_name = app.current_view.state.table_name
            /\ app'.current_view.state.page = app.current_view.state.page
            /\ app'.current_view.state.rows = app.current_view.state.rows
            /\ app'.current_view.state.total_count = app.current_view.state.total_count]_vars
    /\ [][(ErrorShown /\ ~ViewReplaced) =>
            \/ app'.current_view.state.error # None
            \/ PageResultAtHead /\ ResultMatchesView /\ DispatchApp]_vars
    /\ [][(ErrorShown /\ PageResultAtHead /\ ResultMatchesView /\ DispatchApp) =>
            /\ IsTableView(app'.current_view)
            /\ app'.current_view.state.error = None]_vars

\* The fetch of a later page failed, the user turned back to page 0 and the
\* error is still shown over the rows while that page loads.
C35_Witness ==
    /\ ErrorShown
    /\ app.current_view.state.loading
    /\ app.current_view.state.page = 0
    /\ app.current_view.state.rows # <<>>
\* ------------------------------------------------------------ selection inside the rows
\* C36: in every table-view state with non-empty rows, selected_row is below
\* the number of rows and scroll_offset is at most selected_row (so the slice
\* rows[scroll_offset..] of the renderer is inside the rows), also after the
\* selection was moved over the previous page's rows while a page turn was
\* loading and the new page arrived with fewer rows.
C36_SelectionInsideRows ==
    (IsTableView(app.current_view) /\ app.current_view.state.rows # <<>>) =>
        /\ app.current_view.state.selected_row < Len(app.current_view.state.rows)
        /\ app.current_view.state.scroll_offset <= app.current_view.state.selected_row
\* ------------------------------------------------------------ rows of the shown page
\* The view of application state a is a table view that is neither loading nor
\* showing an error.
PageShown(a) ==
    /\ IsTableView(a.current_view)
    /\ ~a.current_view.state.loading
    /\ a.current_view.state.error = None

\* What the table view of application state a displays, and for which
\* (table, page).
Displayed(a) ==
    [table_name |-> a.current_view.state.table_name,
     page |-> a.current_view.state.page,
     columns |-> a.current_view.state.columns,
     rows |-> a.current_view.state.rows,
     total_count |-> a.current_view.state.total_count]

\* C37: a table view with loading = false and error = None holds the rows,
\* columns and total_count of the most recent successful result for its
\* (table_name, page). Step by step: a view comes to be in that condition, or
\* changes what it displays while in it, only by the application of a
\* successful result fetched for its (table_name, page), whose rows, columns
\* and total_count it then holds; and every such result that is processed
\* while the view shows that (table_name, page) is applied. A freshly created
\* view is loading.
C37_RowsMatchPage ==
    /\ ~IsTableView(app.current_view)
    /\ [][PageShown(app') =>
            \/ /\ PageResultAtHead /\ DispatchApp
               /\ Displayed(app') =
                    [table_name |-> Head(queue).result.table_name,
                     page |-> Head(queue).result.page,
                     columns |-> Head(queue).result.columns,
                     rows |-> Head(queue).result.rows,
                     total_count |-> Head(queue).result.total_count]
            \/ /\ PageShown(app)
               /\ Displayed(app') = Displayed(app)
               /\ ~(PageResultAtHead /\ ResultMatchesView /\ DispatchApp)]_vars
    /\ [][(IsTableView(app'.current_view)
             /\ ~(IsTableView(app.current_view)
                    /\ app.current_view.state.table_name = app'.current_view.state.table_name))
            => app'.current_view.state.loading]_vars

\* Page 1 of a table is shown with its rows.
C37_Witness ==
    /\ PageShown(app)
    /\ app.current_view.state.page = 1
    /\ app.current_view.state.rows # <<>>
    /\ Len(app.current_view.state.rows) < PAGE_SIZE
\* ------------------------------------------------------------ loading resolves
\* The application with a table selected in the tree, or with a first query
\* just submitted; the tasks spawned so far are running.
InitResolve ==
    /\ \/ app = AppAtTable /\ tasks = EmptyBag
       \/ /\ app = QuerySubmitted.app
          /\ tasks = SeqToBag(QuerySubmitted.spawn)
                      (+) SetToBag({[type |-> "fetch_database_structure"]})
    /\ queue = <<>>
    /\ schema_task = IF IsSome(app.schema_handle) THEN "running" ELSE "none"
    /\ stats_task = IF IsSome(app.stats_handle) THEN "running" ELSE "none"
    /\ stats_pc = StatsPcStart
    /\ dropped = FALSE
    /\ trace_on = FALSE
    /\ sent = <<>>
    /\ handled = <<>>
    /\ hist_probe = ProbeIdle
    /\ schema_probe = SchemaProbeIdle

ResolveKeys == {"Enter", "b", "End", "Right", "F5"}

NextResolve ==
    \/ DispatchKey
    \/ DispatchApp
    \/ \E k \in ResolveKeys : SendKey(k)
    \/ FetchStructureDone
    \/ QueryDone
    \/ FetchPageDone

\* run() takes the next event whenever one is waiting, and every spawned fetch
\* and query comes to an end.
SpecResolve ==
    InitResolve /\ [][NextResolve]_vars
    /\ WF_vars(DispatchKey \/ DispatchApp)
    /\ SF_vars(FetchPageDone) /\ SF_vars(QueryDone)

\* The table view shows (table_name, page) as loading.
LoadingAt(table_name, page) ==
    /\ IsTableView(app.current_view)
    /\ app.current_view.state.table_name = table_name
    /\ app.current_view.state.page = page
    /\ app.current_view.state.loading

\* A fetch for (table_name, page) is running, or its result waits in the
\* channel.
FetchOutstanding(table_name, page) ==
    \/ FetchTask(table_name, page) \in Running("fetch_table_page")
    \/ \E i \in 1..Len(queue) :
         /\ queue[i].kind = "App" /\ queue[i].app = "TableDataLoaded"
         /\ FetchOf(queue[i].result) = <<table_name, page>>

\* C38: whenever a table view is loading, a fetch for its (table_name, page)
\* is running or its result is queued; so, every fetch coming to an end and
\* the dispatcher running, a view loading (table_name, page) eventually stops
\* loading or is replaced or turned to another page; and a query that is
\* executing eventually is not.  (P leads to ~P is written as: always
\* eventually ~P.)
C38_LoadingResolves ==
    /\ [](\A t \in {"t1", "t2"}, p \in 0..2 :
            LoadingAt(t, p) => FetchOutstanding(t, p))
    /\ [](IsTableView(app.current_view) =>
            /\ app.current_view.state.table_name \in {"t1", "t2"}
            /\ app.current_view.state.page \in 0..2)
    /\ \A t \in {"t1", "t2"}, p \in 0..2 : []<>~LoadingAt(t, p)
    /\ []<>~app.query_executing

\* Page 1 of a table is loading while its fetch is running.
C38_Witness ==
    /\ LoadingAt("t1", 1)
    /\ FetchTask("t1", 1) \in Running("fetch_table_page")
    /\ queue = <<>>
\* ------------------------------------------------------------ the table count
\* C39: in every state in which a structure has been loaded, stats.table_count
\* is the number of tables over all schemas of that structure; a StatsUpdated
\* event in particular leaves it at that number.
C39_TableCountTracksStructure ==
    IsSome(app.db_structure) =>
        app.stats.table_count = TableCount(Unwrap(app.db_structure).schemas)
\* ------------------------------------------------------------ view, connection and results
\* With table t1 selected in the tree, the user went to the editor, typed a
\* query and submitted it.
QueryAtTable ==
    CHOOSE r \in {handle_editor_keys(a2, "F5") :
                   a2 \in {handle_editor_keys(a1, "a").app :
                   a1 \in {[a0 EXCEPT !.focused_pane = "Editor"] : a0 \in {AppAtTable}}}} :
        TRUE

\* The first query of a session came back with rows and the user submitted it
\* again.
QueryResubmitted ==
    CHOOSE r \in UNION {{handle_editor_keys(a1, "F5") :
                           a1 \in {on_QueryExecuted(s.app, result).app :
                           result \in {execute_sql_query(s.spawn[1].query, 20)}}} :
                        s \in {QuerySubmitted}} :
        TRUE

\* A session that is connecting, or one with a query running after the user
\* left the editor with Esc: for the tree, with a table selected in it, or for
\* the results of an earlier query, the first structure fetch still out.
InitConsistent ==
    /\ \/ app = AppNew /\ tasks = SetToBag({[type |-> "connect_to_database"]})
       \/ /\ app \in {handle_editor_keys(a, "Esc").app : a \in {QueryAtTable.app}}
          /\ tasks = SeqToBag(QueryAtTable.spawn)
       \/ /\ app \in {handle_editor_keys(a, "Esc").app : a \in {QueryResubmitted.app}}
          /\ tasks = SeqToBag(QueryResubmitted.spawn)
                      (+) SetToBag({[type |-> "fetch_database_structure"]})
    /\ queue = <<>>
    /\ schema_task = IF IsSome(app.schema_handle) THEN "running" ELSE "none"
    /\ stats_task = IF IsSome(app.stats_handle) THEN "running" ELSE "none"
    /\ stats_pc = StatsPcStart
    /\ dropped = FALSE
    /\ trace_on = FALSE
    /\ sent = <<>>
    /\ handled = <<>>
    /\ hist_probe = ProbeIdle
    /\ schema_probe = SchemaProbeIdle

ConsistentKeys == {"Enter", "c", "b"}

NextConsistent ==
    \/ DispatchKey
    \/ DispatchApp
    \/ \E k \in ConsistentKeys : SendKey(k)
    \/ ConnectDone
    \/ FetchStructureDone
    \/ QueryDone
    \/ FetchPageDone

SpecConsistent == InitConsistent /\ [][NextConsistent]_vars

\* C40: the current view is ConnectionStatus exactly when the connection is
\* Connecting or Failed, and a table view exists only while Connected;
\* show_query_results implies that a query_result is present; and processing
\* QueryExecuted sets show_query_results and leaves current_view and
\* focused_pane as they were, also when a table was opened or the results
\* were cleared while the query was running.
C40_ViewConsistency ==
    /\ [](app.current_view = ConnectionStatus
            <=> app.connection.state \in {"Connecting", "Failed"})
    /\ [](IsTableView(app.current_view) => IsConnected(app))
    /\ [](app.show_query_results => IsSome(app.query_result))
    /\ [][(QueryResultAtHead /\ DispatchApp) =>
            /\ app'.show_query_results
            /\ app'.current_view = app.current_view
            /\ app'.focused_pane = app.focused_pane]_vars

\* The query ended after a table was opened: its results are shown while the
\* current view is the table view.
C40_Witness ==
    /\ IsTableView(app.current_view)
    /\ app.show_query_results
    /\ IsSome(app.query_result)
    /\ ~app.query_executing

====
